---- MODULE Spec2Model ----
(***************************************************************************)
(* A model of the gb-dynarec Game Boy emulator core: the CPU registers,    *)
(* the memory bus, the interrupt dispatch of the orchestrator              *)
(* (emulator.rs), the interpreter (interpreter/mod.rs), the x86-64 emitter *)
(* as the effect of the code it emits (emitter/x86_64.rs), the code        *)
(* cache (cache/) and the timer, joypad and video devices (devices/).      *)
(*                                                                         *)
(* Representation.  Rust's u32 registers ip and sp are kept as a pair      *)
(* [hi, lo] of 16-bit halves, because they can hold values above 2^31.     *)
(* The other registers are naturals.  A RAM array is a function from the   *)
(* offsets that hold a non-zero byte to that byte: every array is         *)
(* zero-filled at construction, so an absent offset reads 0.  A host       *)
(* panic (index out of bounds, panic!) sets host_error and stops the run.  *)
(* The guest program is the byte content of the ROM image, drawn at Init   *)
(* from a set of programs; each op is fetched and decoded from memory.     *)
(***************************************************************************)
EXTENDS Integers, Sequences, FiniteSets, TLC

VARIABLES
  registers,           \* cpu.rs Registers
  memory,              \* mem.rs MemoryAreas (with devices/io.rs IO)
  interrupts_enabled,  \* emulator.rs Core.interrupts_enabled
  run_state,           \* emulator.rs Core.run_state
  last_block_cycle_length, \* emulator.rs Core.last_block_cycle_length
  cache,               \* cache/mod.rs CodeCache
  timer,               \* devices/timer.rs Timer (memory.io.timer)
  joypad,              \* devices/joypad.rs Joypad (memory.io.joypad)
  video,               \* devices/video/mod.rs VideoState (memory.io.video)
  jit,                 \* whether the build has the "jit" feature
  host_error,          \* TRUE once the host process has panicked
  steps,               \* number of orchestrator calls made so far
  last                 \* what the last call did (observation only)

vars == <<registers, memory, interrupts_enabled, run_state,
          last_block_cycle_length, cache, timer, joypad, video, jit,
          host_error, steps, last>>

\* the devices of IO that have their own state
devices == <<timer, joypad, video>>

----------------------------------------------------------------------------
(* Bounds of the exploration *)

\* orchestrator calls explored from the initial state
MaxSteps == 5

----------------------------------------------------------------------------
(* Integer helpers: Rust's bit operators on unsigned values *)

RECURSIVE BitAnd(_, _)
BitAnd(a, b) ==
  IF a = 0 \/ b = 0 THEN 0
  ELSE (a % 2) * (b % 2) + 2 * BitAnd(a \div 2, b \div 2)

BitOr(a, b) == a + b - BitAnd(a, b)

BitXor(a, b) == a + b - 2 * BitAnd(a, b)

\* !x on a u8
Not8(x) == 255 - x

\* x & !flag on a u8
ClearBits(x, flag) == x - BitAnd(x, flag)

\* the element of a one-element set; { e : x \in {v} } is e with x standing
\* for the value of v
The(S) == CHOOSE r \in S : TRUE

\* a u32 as two 16-bit halves
U32(n) == [hi |-> (n \div 65536) % 65536, lo |-> n % 65536]

\* u32::wrapping_add(d) for 0 <= d < 65536
wrapping_add32(x, d) ==
  LET s == x.lo + d
  IN  [hi |-> (x.hi + (s \div 65536)) % 65536, lo |-> s % 65536]

\* u32::wrapping_sub(d) for 0 <= d <= 65536
wrapping_sub32(x, d) ==
  LET s == x.lo - d
  IN  IF s >= 0 THEN [hi |-> x.hi, lo |-> s]
      ELSE [hi |-> (x.hi + 65535) % 65536, lo |-> s + 65536]

\* `x as u16` of a u32
as_u16(x) == x.lo

\* u16::wrapping_add / wrapping_sub
wrapping_add16(a, d) == (a + d) % 65536

wrapping_sub16(a, d) == (a + 65536 - d) % 65536

----------------------------------------------------------------------------
(* cpu.rs: status codes returned by a translation *)

STATUS_NORMAL == 0

STATUS_STOP == 1

STATUS_HALT == 2

STATUS_INTERRUPT_DISABLE == 3

STATUS_INTERRUPT_ENABLE == 4

\* Registers::new()
Registers_new ==
  [af |-> 0, bc |-> 0, de |-> 0, hl |-> 0,
   sp |-> U32(0), ip |-> U32(0), cycles |-> 0]

\* Registers::after_boot()
Registers_after_boot ==
  [af |-> 432, bc |-> 19, de |-> 216, hl |-> 333,
   sp |-> U32(65534), ip |-> U32(256), cycles |-> 0]

\* Registers::get_a / set_a
get_a(r) == (r.af \div 256) % 256

set_a(r, value) == [r EXCEPT !.af = BitOr(BitAnd(r.af, 255), value * 256)]

----------------------------------------------------------------------------
(* cart.rs: the cartridge controllers *)

NullCartState_new ==
  [kind |-> "Null", rom_bank |-> 1, ram_bank |-> 0,
   ram_enabled |-> FALSE, select_ram |-> FALSE]

MBC1CartState_new ==
  [kind |-> "MBC1", rom_bank |-> 1, ram_bank |-> 0,
   ram_enabled |-> FALSE, select_ram |-> FALSE]

MBC3CartState_new ==
  [kind |-> "MBC3", rom_bank |-> 1, ram_bank |-> 0,
   ram_enabled |-> FALSE, select_ram |-> FALSE]

\* CartState::write_rom of the three implementations
write_rom(cs, addr, value) ==
  CASE cs.kind = "MBC1" ->
         IF addr < 8192 THEN [cs EXCEPT !.ram_enabled = (BitAnd(value, 10) = 10)]
         ELSE IF addr < 16384 THEN [cs EXCEPT !.rom_bank = BitAnd(value, 31)]
         ELSE IF addr < 24576 THEN [cs EXCEPT !.ram_bank = BitAnd(value, 3)]
         ELSE [cs EXCEPT !.select_ram = (BitAnd(value, 1) = 1)]
    [] cs.kind = "MBC3" ->
         IF addr < 8192 THEN [cs EXCEPT !.ram_enabled = (BitAnd(value, 10) = 10)]
         ELSE IF addr < 16384 THEN [cs EXCEPT !.rom_bank = BitAnd(value, 127)]
         ELSE IF addr < 24576 /\ value < 4 THEN [cs EXCEPT !.ram_bank = value]
         ELSE cs
    [] OTHER -> cs

\* CartState::get_rom_bank
get_rom_bank(cs) ==
  CASE cs.kind = "MBC1" ->
         IF cs.select_ram THEN cs.rom_bank
         ELSE BitOr(IF cs.rom_bank = 0 THEN 1 ELSE cs.rom_bank, cs.ram_bank * 32)
    [] cs.kind = "MBC3" -> IF cs.rom_bank = 0 THEN 1 ELSE cs.rom_bank
    [] OTHER -> 1

\* CartState::get_ram_bank
get_ram_bank(cs) ==
  CASE cs.kind = "MBC1" -> IF cs.select_ram THEN cs.ram_bank ELSE 0
    [] cs.kind = "MBC3" -> cs.ram_bank
    [] OTHER -> 0

----------------------------------------------------------------------------
(* devices/io.rs, devices/interrupts.rs: the interrupt registers *)

\* IO::new(): IF empty, IE zero
IO_new == [interrupt_flag |-> 0, interrupt_mask |-> 0]

\* IO::get_active_interrupts
get_active_interrupts(io) == BitAnd(io.interrupt_flag, io.interrupt_mask)

\* InterruptFlag::clear
InterruptFlag_clear(flag, bit) == ClearBits(flag, bit)

\* IO::set_byte: the registers of the timer, video, serial and joypad devices
\* hold no state of this model; a write to them leaves IF and IE alone
IO_set_byte(io, addr, value) ==
  IF addr % 256 = 15 THEN [io EXCEPT !.interrupt_flag = BitAnd(value, 31)]
  ELSE io

\* IO::get_byte: IF reads with its three unconnected lines high
IO_get_byte(io, addr) ==
  IF addr % 256 = 15 THEN BitOr(io.interrupt_flag, 224) ELSE 255

----------------------------------------------------------------------------
(* devices/timer.rs.  An operation that returns an InterruptFlag gives the *)
(* pair [t, flag] of the timer after it and the flag returned.             *)

\* Timer::new()
Timer_new ==
  [cycle_count |-> 0, counter |-> 0, modulo |-> 0, enabled_mask |-> 0,
   timer_clock_mask |-> 0, control_value |-> 0]

\* Timer::reset_divider
reset_divider(t) == [t EXCEPT !.cycle_count = 0]

\* Timer::get_divider
get_divider(t) == (t.cycle_count \div 256) % 256

\* Timer::set_counter
set_counter(t, value) == [t EXCEPT !.counter = value]

\* Timer::set_modulo
set_modulo(t, value) == [t EXCEPT !.modulo = value]

\* Timer::increment_counter: the flag returned at an overflow is
\* InterruptFlag::new(1)
increment_counter(t) ==
  IF t.counter = 255 THEN [t |-> [t EXCEPT !.counter = t.modulo], flag |-> 1]
  ELSE [t |-> [t EXCEPT !.counter = (@ + 1) % 256], flag |-> 0]

\* the selection with the slowest rate first
clock_mask_of_rotated(flags) ==
  CASE flags % 4 = 1 -> 512
    [] flags % 4 = 2 -> 8
    [] flags % 4 = 3 -> 32
    [] OTHER -> 128

\* the bit of cycle_count the control byte selects
clock_mask_of(flags) ==
  CASE flags % 4 = 1 -> 8
    [] flags % 4 = 2 -> 32
    [] flags % 4 = 3 -> 128
    [] OTHER -> 512

\* Timer::set_timer_control
set_timer_control(t, flags) ==
  LET old_masked_bit ==
        BitAnd(BitAnd(t.cycle_count, t.timer_clock_mask), t.enabled_mask)
      t1 == [t EXCEPT !.control_value = flags,
                      !.enabled_mask = IF BitAnd(flags, 4) # 0 THEN 65535 ELSE 0,
                      !.timer_clock_mask = clock_mask_of(flags)]
      new_masked_bit ==
        BitAnd(BitAnd(t1.cycle_count, t1.timer_clock_mask), t1.enabled_mask)
  IN  IF old_masked_bit # 0 /\ new_masked_bit = 0 THEN increment_counter(t1)
      ELSE [t |-> t1, flag |-> 0]

\* Timer::run_cycles, one turn of the loop of the enabled timer: one clock
\* cycle
run_one_cycle(t, flag) ==
  LET mask_prev == BitAnd(t.cycle_count, t.timer_clock_mask)
      t1 == [t EXCEPT !.cycle_count = @ + 1]
      mask_new == BitAnd(t1.cycle_count, t.timer_clock_mask)
      inc == increment_counter(t1)
  IN  IF mask_prev # 0 /\ mask_new = 0
        THEN [t |-> inc.t, flag |-> BitOr(flag, inc.flag)]
      ELSE [t |-> t1, flag |-> flag]

\* Timer::run_cycles, the loop: to_increment turns in order, taken as the
\* first half of the turns followed by the rest
RECURSIVE run_cycles_loop(_, _, _)
run_cycles_loop(t0, flag0, to_increment0) ==
  The({ IF to_increment = 0 THEN [t |-> t, flag |-> flag]
        ELSE IF to_increment = 1 THEN run_one_cycle(t, flag)
        ELSE The({ run_cycles_loop(r.t, r.flag,
                                   to_increment - to_increment \div 2)
                   : r \in {run_cycles_loop(t, flag, to_increment \div 2)} })
        : t \in {t0}, flag \in {flag0}, to_increment \in {to_increment0} })

\* Timer::run_cycles
run_cycles(t, cycles) ==
  IF t.enabled_mask = 0
    THEN [t |-> [t EXCEPT !.cycle_count = (@ + cycles) % 65536], flag |-> 0]
  ELSE The({ [t |-> [r.t EXCEPT !.cycle_count = @ % 65536], flag |-> r.flag]
             : r \in {run_cycles_loop(t, 0, cycles)} })

----------------------------------------------------------------------------
(* devices/joypad.rs *)

\* Joypad::new()
Joypad_new ==
  [action_state |-> 0, direction_state |-> 0, select_action |-> FALSE,
   select_direction |-> FALSE, next_interrupt |-> 0]

\* enum Button as the state register and the bit of a button
Button(half, bit) == [half |-> half, bit |-> bit]

\* Joypad::get_value
get_value(j) ==
  LET d == IF j.select_direction THEN BitOr(16, j.direction_state) ELSE 0
      a == IF j.select_action THEN BitOr(32, j.action_state) ELSE 0
  IN  Not8(BitOr(192, BitOr(d, a)))

\* the button registered in its state register
button_down(j, button) ==
  IF button.half = "action"
    THEN [j EXCEPT !.action_state = BitOr(@, button.bit)]
  ELSE [j EXCEPT !.direction_state = BitOr(@, button.bit)]

\* press_button raising the interrupt whenever no line rose
press_button_not_greater(j, button) ==
  LET prev_value == get_value(j) % 16
      j1 == button_down(j, button)
      new_value == get_value(j1) % 16
  IN  IF new_value <= prev_value THEN [j1 EXCEPT !.next_interrupt = 16] ELSE j1

\* Joypad::press_button
press_button(j, button) ==
  LET prev_value == get_value(j) % 16
      j1 == button_down(j, button)
      new_value == get_value(j1) % 16
  IN  IF new_value < prev_value THEN [j1 EXCEPT !.next_interrupt = 16] ELSE j1

\* release_button dropping the interrupt the press raised
release_button_dropping(j, button) ==
  IF button.half = "action"
    THEN [j EXCEPT !.action_state = ClearBits(@, button.bit), !.next_interrupt = 0]
  ELSE [j EXCEPT !.direction_state = ClearBits(@, button.bit), !.next_interrupt = 0]

\* Joypad::release_button
release_button(j, button) ==
  IF button.half = "action"
    THEN [j EXCEPT !.action_state = ClearBits(@, button.bit)]
  ELSE [j EXCEPT !.direction_state = ClearBits(@, button.bit)]

\* Joypad::set_value
set_value(j, value) ==
  LET prev_value == get_value(j) % 16
      j1 == [j EXCEPT !.select_direction = (BitAnd(value, 16) = 0),
                      !.select_action = (BitAnd(value, 32) = 0)]
      new_value == get_value(j1) % 16
  IN  IF new_value < prev_value THEN [j1 EXCEPT !.next_interrupt = 16] ELSE j1

\* Joypad::get_interrupt: the pending flag is returned and cleared
get_interrupt(j) == [j |-> [j EXCEPT !.next_interrupt = 0], flag |-> j.next_interrupt]

----------------------------------------------------------------------------
(* devices/video/mod.rs, devices/video/lcd.rs *)

\* LCD::new(): the two framebuffers are named 0 and 1
LCD_new == [visible_buffer |-> 0, writing_buffer |-> 1, enabled |-> TRUE]

\* VideoState::new(): the start of a vertical blank.  The fields kept are
\* those the mode timing and the interrupts depend on.
VideoState_new ==
  [lcd |-> LCD_new, ly_compare |-> 0, interrupt_on_lyc |-> FALSE,
   interrupt_on_mode_2 |-> FALSE, interrupt_on_mode_1 |-> FALSE,
   interrupt_on_mode_0 |-> FALSE, current_mode |-> 1,
   current_mode_dots |-> 0, current_line |-> 144]

\* LCD::swap_buffers
swap_buffers(lcd) ==
  [lcd EXCEPT !.visible_buffer = lcd.writing_buffer,
              !.writing_buffer = lcd.visible_buffer]

\* VideoState::check_current_line
check_current_line(v) ==
  IF v.ly_compare = v.current_line /\ v.interrupt_on_lyc THEN 2 ELSE 0

\* VideoState::check_mode_interrupt
check_mode_interrupt(v) ==
  IF v.interrupt_on_mode_2 /\ v.current_mode = 2 THEN 2
  ELSE IF v.interrupt_on_mode_1 /\ v.current_mode = 1 THEN 2
  ELSE IF v.interrupt_on_mode_0 /\ v.current_mode = 0 THEN 2
  ELSE 0

\* VideoState::set_lcd_status
set_lcd_status(v, value) ==
  LET v1 == [v EXCEPT !.interrupt_on_lyc = BitAnd(value, 64) # 0,
                      !.interrupt_on_mode_2 = BitAnd(value, 32) # 0,
                      !.interrupt_on_mode_1 = BitAnd(value, 16) # 0,
                      !.interrupt_on_mode_0 = BitAnd(value, 8) # 0]
  IN  [v |-> v1, flag |-> check_current_line(v1)]

\* VideoState::get_lcd_status
get_lcd_status(v) ==
  (IF v.interrupt_on_lyc THEN 64 ELSE 0) + (IF v.interrupt_on_mode_2 THEN 32 ELSE 0)
  + (IF v.interrupt_on_mode_1 THEN 16 ELSE 0) + (IF v.interrupt_on_mode_0 THEN 8 ELSE 0)
  + (IF v.ly_compare = v.current_line THEN 4 ELSE 0) + v.current_mode

\* VideoState::set_ly_compare
set_ly_compare(v, value) ==
  LET v1 == [v EXCEPT !.ly_compare = value]
  IN  [v |-> v1, flag |-> check_current_line(v1)]

\* the dots of a scanline: the sum of modes 2, 3 and 0
mode_dots_hardware(mode) ==
  CASE mode = 0 -> 204
    [] mode = 1 -> 456
    [] mode = 2 -> 80
    [] OTHER -> 172

\* a vertical blank whose scanlines are four dots longer
mode_dots_long_blank(mode) ==
  CASE mode = 0 -> 188
    [] mode = 1 -> 460
    [] mode = 2 -> 80
    [] OTHER -> 188

\* VideoState::run_clock_cycles: the dots after which each arm of the match
\* on current_mode ends the mode (mode 1: ends the scanline)
mode_dots(mode) ==
  CASE mode = 0 -> 188
    [] mode = 1 -> 456
    [] mode = 2 -> 80
    [] OTHER -> 188

\* VideoState::run_clock_cycles, one turn of its loop: four dots.  The
\* sprite search, the tile cache and the pixels written to the framebuffer
\* change no field kept here.
video_four_dots(v0) ==
  LET v == [v0 EXCEPT !.current_mode_dots = @ + 4]
      dots == v.current_mode_dots
  IN  CASE v.current_mode = 0 ->
             IF dots >= mode_dots(v.current_mode)
               THEN IF v.current_line < 144
                      THEN LET v1 == [v EXCEPT !.current_mode_dots = dots - mode_dots(v.current_mode),
                                               !.current_line = @ + 1,
                                               !.current_mode = 2]
                           IN  [v |-> v1,
                                flag |-> BitOr(check_mode_interrupt(v1),
                                               check_current_line(v1))]
                    ELSE LET v1 == [v EXCEPT !.current_mode_dots = dots - mode_dots(v.current_mode),
                                             !.current_mode = 1,
                                             !.lcd = swap_buffers(@)]
                         IN  [v |-> v1,
                              flag |-> BitOr(check_mode_interrupt(v1), 1)]
             ELSE [v |-> v, flag |-> 0]
        [] v.current_mode = 1 ->
             IF dots >= mode_dots(v.current_mode)
               THEN IF v.current_line < 153
                      THEN LET v1 == [v EXCEPT !.current_mode_dots = dots - mode_dots(v.current_mode),
                                               !.current_line = @ + 1]
                           IN  [v |-> v1, flag |-> check_current_line(v1)]
                    ELSE LET v1 == [v EXCEPT !.current_mode_dots = dots - mode_dots(v.current_mode),
                                             !.current_line = 0,
                                             !.current_mode = 2]
                         IN  [v |-> v1, flag |-> check_mode_interrupt(v1)]
             ELSE [v |-> v, flag |-> 0]
        [] v.current_mode = 2 ->
             IF dots >= mode_dots(v.current_mode)
               THEN [v |-> [v EXCEPT !.current_mode_dots = dots - mode_dots(v.current_mode),
                                     !.current_mode = 3],
                     flag |-> 0]
             ELSE [v |-> v, flag |-> 0]
        [] OTHER ->
             IF dots >= mode_dots(v.current_mode)
               THEN LET v1 == [v EXCEPT !.current_mode_dots = dots - mode_dots(v.current_mode),
                                        !.current_mode = 0]
                    IN  [v |-> v1, flag |-> check_mode_interrupt(v1)]
             ELSE [v |-> v, flag |-> 0]

\* VideoState::run_clock_cycles for a number of cycles that is a multiple of
\* 4, as every caller passes
\* (the turns of the loop in order, taken as the first half of the turns
\* followed by the rest)
RECURSIVE VideoState_run_clock_cycles(_, _, _)
VideoState_run_clock_cycles(v0, flag0, cycles_remaining0) ==
  The({ IF cycles_remaining <= 0 THEN [v |-> v, flag |-> flag]
        ELSE IF cycles_remaining = 4
          THEN The({ [v |-> r.v, flag |-> BitOr(flag, r.flag)]
                     : r \in {video_four_dots(v)} })
        ELSE The({ VideoState_run_clock_cycles(
                     r.v, r.flag,
                     cycles_remaining - 4 * ((cycles_remaining \div 4) \div 2))
                   : r \in {VideoState_run_clock_cycles(
                              v, flag, 4 * ((cycles_remaining \div 4) \div 2))} })
        : v \in {v0}, flag \in {flag0}, cycles_remaining \in {cycles_remaining0} })

----------------------------------------------------------------------------
(* devices/io.rs with its devices.  x = [io, timer, joypad, video] is the  *)
(* IO struct: io holds interrupt_flag and interrupt_mask.                  *)

\* IO::set_byte on the registers of the joypad, the timer and the video unit
set_byte(x, addr, value) ==
  CASE addr % 256 = 0 -> [x EXCEPT !.joypad = set_value(@, value)]
    [] addr % 256 = 4 -> [x EXCEPT !.timer = reset_divider(@)]
    [] addr % 256 = 5 -> [x EXCEPT !.timer = set_counter(@, value)]
    [] addr % 256 = 6 -> [x EXCEPT !.timer = set_modulo(@, value)]
    [] addr % 256 = 7 ->
         LET r == set_timer_control(x.timer, value)
         IN  [x EXCEPT !.timer = r.t,
                       !.io.interrupt_flag = BitOr(@, r.flag)]
    [] addr % 256 = 15 -> [x EXCEPT !.io.interrupt_flag = BitAnd(value, 31)]
    [] addr % 256 = 65 ->
         LET r == set_lcd_status(x.video, value)
         IN  [x EXCEPT !.video = r.v,
                       !.io.interrupt_flag = BitOr(@, r.flag)]
    [] addr % 256 = 69 ->
         LET r == set_ly_compare(x.video, value)
         IN  [x EXCEPT !.video = r.v,
                       !.io.interrupt_flag = BitOr(@, r.flag)]
    [] OTHER -> x

\* IO::run_clock_cycles
IO_run_clock_cycles(x, cycles) ==
  The({ [io |-> [x.io EXCEPT !.interrupt_flag =
                   BitOr(@, BitOr(t.flag, BitOr(v.flag, j.flag)))],
         timer |-> t.t, joypad |-> j.j, video |-> v.v]
        : t \in {run_cycles(x.timer, cycles)},
          v \in {VideoState_run_clock_cycles(x.video, 0, cycles)},
          j \in {get_interrupt(x.joypad)} })

\* the devices as IO::new() builds them
DevicesNew ==
  /\ timer = Timer_new
  /\ joypad = Joypad_new
  /\ video = VideoState_new

----------------------------------------------------------------------------
(* mem.rs: MemoryAreas and the bus *)

\* a byte of a zero-filled array
peek(ram, off) == IF off \in DOMAIN ram THEN ram[off] ELSE 0

\* the array with one byte stored
poke(ram, off, value) ==
  [o \in (IF value = 0 THEN DOMAIN ram \ {off} ELSE DOMAIN ram \cup {off}) |->
     IF o = off THEN value ELSE ram[o]]

\* a byte of the ROM image: bytes not named by the model hold the 0xff fill
rom_byte(mem, index) == IF index \in DOMAIN mem.rom THEN mem.rom[index] ELSE 255

DMA_None == [active |-> FALSE, source |-> 0, current_offset |-> 0]

\* MemoryAreas::with_rom: one 16 KiB ROM bank holding rom_code, a HALT after
\* it and the 0xff fill; 4 KiB of work RAM, no cart RAM
MemoryAreas_with_rom(rom_code) ==
  [rom |-> [i \in 0..Len(rom_code) |->
              IF i < Len(rom_code) THEN rom_code[i + 1] ELSE 118],
   rom_len |-> 16384, cart_state |-> NullCartState_new,
   video_ram |-> << >>, video_ram_len |-> 8192,
   cart_ram |-> << >>, cart_ram_len |-> 0,
   work_ram |-> << >>, work_ram_len |-> 4096,
   oam_ram |-> << >>, high_ram |-> << >>,
   vram_bank |-> 0, wram_bank |-> 1, io |-> IO_new, oam_dma |-> DMA_None]

\* MemoryAreas::with_rom_file for a header giving the controller, the number
\* of ROM banks and the cart RAM size, and a ROM file holding `rom`
MemoryAreas_with_rom_file(cart_state, rom_banks, ram_bytes, rom) ==
  [rom |-> rom, rom_len |-> rom_banks * 16384, cart_state |-> cart_state,
   video_ram |-> << >>, video_ram_len |-> 8192,
   cart_ram |-> << >>, cart_ram_len |-> ram_bytes,
   work_ram |-> << >>, work_ram_len |-> 8192,
   oam_ram |-> << >>, high_ram |-> << >>,
   vram_bank |-> 0, wram_bank |-> 1, io |-> IO_new, oam_dma |-> DMA_None]

\* memory_read_byte: whether every slice index of the read is in bounds
memory_read_ok(mem, addr) ==
  IF addr < 16384 THEN addr < mem.rom_len
  ELSE IF addr < 32768
    THEN 16384 * get_rom_bank(mem.cart_state) + (addr % 16384) < mem.rom_len
  ELSE IF addr < 40960 THEN (addr % 8192) < mem.video_ram_len
  ELSE IF addr < 49152
    THEN 8192 * get_ram_bank(mem.cart_state) + (addr % 8192) < mem.cart_ram_len
  ELSE IF addr < 53248 THEN (addr % 4096) < mem.work_ram_len
  ELSE IF addr < 57344
    THEN 4096 * mem.wram_bank + (addr % 4096) < mem.work_ram_len
  ELSE TRUE

\* memory_read_byte: the byte read (0 stands in when the read panics)
memory_read_byte(mem, addr) ==
  IF ~memory_read_ok(mem, addr) THEN 0
  ELSE IF addr < 16384 THEN rom_byte(mem, addr)
  ELSE IF addr < 32768
    THEN rom_byte(mem, 16384 * get_rom_bank(mem.cart_state) + (addr % 16384))
  ELSE IF addr < 40960 THEN peek(mem.video_ram, addr % 8192)
  ELSE IF addr < 49152
    THEN peek(mem.cart_ram, 8192 * get_ram_bank(mem.cart_state) + (addr % 8192))
  ELSE IF addr < 53248 THEN peek(mem.work_ram, addr % 4096)
  ELSE IF addr < 57344
    THEN peek(mem.work_ram, 4096 * mem.wram_bank + (addr % 4096))
  ELSE IF addr < 65024 THEN 0
  ELSE IF addr < 65184 THEN peek(mem.oam_ram, addr % 256)
  ELSE IF addr < 65280 THEN 0
  ELSE IF addr < 65408 /\ addr # 65350 THEN IO_get_byte(mem.io, addr)
  ELSE IF addr = 65535 THEN mem.io.interrupt_mask
  ELSE peek(mem.high_ram, addr % 128)

\* memory_write_byte: whether every slice index of the write is in bounds
memory_write_ok(mem, addr) ==
  IF addr < 32768 THEN TRUE
  ELSE IF addr < 40960
    THEN 8192 * mem.vram_bank + (addr % 8192) < mem.video_ram_len
  ELSE IF addr < 49152
    THEN 8192 * get_ram_bank(mem.cart_state) + (addr % 8192) < mem.video_ram_len
  ELSE IF addr < 53248 THEN (addr % 4096) < mem.work_ram_len
  ELSE IF addr < 57344
    THEN 4096 * mem.wram_bank + (addr % 4096) < mem.work_ram_len
  ELSE TRUE

\* memory_write_byte: the memory after the write (unchanged when it panics)
memory_write_byte(mem, addr, value) ==
  IF ~memory_write_ok(mem, addr) THEN mem
  ELSE IF addr < 32768
    THEN [mem EXCEPT !.cart_state = write_rom(@, addr, value)]
  ELSE IF addr < 40960
    THEN [mem EXCEPT !.video_ram =
            poke(@, 8192 * mem.vram_bank + (addr % 8192), value)]
  ELSE IF addr < 49152
    THEN [mem EXCEPT !.video_ram =
            poke(@, 8192 * get_ram_bank(mem.cart_state) + (addr % 8192), value)]
  ELSE IF addr < 53248 THEN [mem EXCEPT !.work_ram = poke(@, addr % 4096, value)]
  ELSE IF addr < 57344
    THEN [mem EXCEPT !.work_ram =
            poke(@, 4096 * mem.wram_bank + (addr % 4096), value)]
  ELSE IF addr < 65024 THEN mem
  ELSE IF addr < 65184 THEN [mem EXCEPT !.oam_ram = poke(@, addr % 256, value)]
  ELSE IF addr < 65280 THEN mem
  ELSE IF addr < 65408
    THEN IF addr = 65350
           THEN [mem EXCEPT !.oam_dma =
                   [active |-> TRUE, source |-> value * 256, current_offset |-> 0]]
           ELSE [mem EXCEPT !.io = IO_set_byte(@, addr, value)]
  ELSE IF addr = 65535 THEN [mem EXCEPT !.io.interrupt_mask = BitAnd(value, 31)]
  ELSE [mem EXCEPT !.high_ram = poke(@, addr % 128, value)]

\* can_dynarec
can_dynarec(addr) == addr < 32768

\* get_executable_memory_slice: whether the slice can be taken (the match has
\* an arm for `start` and the range is inside the array); ip is a u32
exec_slice_ok(mem, ip) ==
  LET start == ip.lo
  IN  /\ ip.hi = 0
      /\ IF start < 16384 THEN 16384 <= mem.rom_len
         ELSE IF start < 32768
           THEN (get_rom_bank(mem.cart_state) + 1) * 16384 <= mem.rom_len
         ELSE IF start < 49152 THEN FALSE
         ELSE IF start < 53248 \/ (57344 <= start /\ start < 61440)
           THEN 4096 <= mem.work_ram_len
         ELSE IF start < 57344 \/ (61440 <= start /\ start < 65184)
           THEN (mem.wram_bank + 1) * 4096 <= mem.work_ram_len
         ELSE 65408 <= start /\ start < 65535

\* get_executable_memory_slice: the length of the slice
exec_slice_len(mem, ip) ==
  LET start == ip.lo
  IN  IF start < 32768 THEN 16384 - (start % 16384)
      ELSE IF start < 65184 THEN 4096 - (start % 4096)
      ELSE 127 - (start % 128)

\* the byte at index k of the slice get_executable_memory_slice returns
exec_slice_byte(mem, ip, k) ==
  LET start == ip.lo
  IN  IF start < 16384 THEN rom_byte(mem, start + k)
      ELSE IF start < 32768
        THEN rom_byte(mem, get_rom_bank(mem.cart_state) * 16384
                             + (start % 16384) + k)
      ELSE IF start < 53248 \/ (57344 <= start /\ start < 61440)
        THEN peek(mem.work_ram, (start % 4096) + k)
      ELSE IF start < 65184
        THEN peek(mem.work_ram, mem.wram_bank * 4096 + (start % 4096) + k)
      ELSE peek(mem.high_ram, (start % 128) + k)

----------------------------------------------------------------------------
(* decoder/ops.rs, decoder/mod.rs: the decoded operations *)

\* an Op value: its variant and up to two operands
Op(kind, a, b) == [kind |-> kind, a |-> a, b |-> b]

\* Op::is_block_end
is_block_end(op) ==
  op.kind \in {"Jump", "JumpHL", "JumpRelative", "Call", "ResetVector",
               "Return", "ReturnFromInterrupt", "InterruptEnable",
               "InterruptDisable", "Stop", "Halt"}

\* decode: the length in bytes the decoder reports with the op
decode_length(op) ==
  CASE op.kind \in {"Load16", "Jump", "Call"} -> 3
    [] op.kind \in {"Stop", "Load8Immediate", "JumpRelative",
                    "AddAbsolute8"} -> 2
    [] OTHER -> 1

\* decode: the clock cycles the decoder reports with the op
decode_cycles(op) ==
  CASE op.kind \in {"Call"} /\ op.a = "Always" -> 24
    [] op.kind \in {"Jump"} /\ op.a = "Always" -> 16
    [] op.kind \in {"Load16", "JumpRelative", "Jump", "Call"} -> 12
    [] op.kind \in {"Load8Immediate", "AddAbsolute8"} -> 8
    [] OTHER -> 4

\* decode of the opcodes whose arms are not in decoder/mod.rs (0xce..0xff and
\* 0xc0, 0xc1, 0xc5, 0xc9): length and clock cycles of the LR35902 encoding
decode_high_opcode(op) ==
  CASE op.kind = "LoadAToMemory" -> IF op.b = 2 THEN <<2, 12>> ELSE <<3, 16>>
    [] op.kind = "Push" -> <<1, 16>>
    [] op.kind = "Pop" -> <<1, 12>>
    [] op.kind = "AddSP" -> <<2, 16>>
    [] op.kind = "SubAbsolute8" -> <<2, 8>>
    [] op.kind = "Return" -> <<1, 8>>
    [] op.kind = "ReturnFromInterrupt" -> <<1, 16>>
    [] op.kind = "ResetVector" -> <<1, 16>>
    [] op.kind = "JumpHL" -> <<1, 4>>
    [] OTHER -> <<1, 4>>

HighOpcodeKinds ==
  {"LoadAToMemory", "Push", "Pop", "AddSP", "Return", "ReturnFromInterrupt",
   "ResetVector", "JumpHL", "SubAbsolute8", "InterruptEnable",
   "InterruptDisable"}

\* read_u16: little-endian operand
read_u16(low, high) == high * 256 + low

\* `byte as i8`
as_i8(b) == IF b < 128 THEN b ELSE b - 256

\* decode of the opcodes whose arms are not in decoder/mod.rs: the op of the
\* LR35902 encoding, for the opcodes the model's programs use
decode_high_op(b0, b1, b2) ==
  CASE b0 = 193 -> Op("Pop", "BC", 0)
    [] b0 = 197 -> Op("Push", "BC", 0)
    [] b0 = 201 -> Op("Return", "Always", 0)
    [] b0 = 214 -> Op("SubAbsolute8", b1, 0)
    [] b0 = 217 -> Op("ReturnFromInterrupt", 0, 0)
    [] b0 = 224 -> Op("LoadAToMemory", 65280 + b1, 2)
    [] b0 = 232 -> Op("AddSP", as_i8(b1), 0)
    [] b0 = 233 -> Op("JumpHL", 0, 0)
    [] b0 = 234 -> Op("LoadAToMemory", read_u16(b1, b2), 0)
    [] b0 = 241 -> Op("Pop", "AF", 0)
    [] b0 = 243 -> Op("InterruptDisable", 0, 0)
    [] b0 = 245 -> Op("Push", "AF", 0)
    [] b0 = 251 -> Op("InterruptEnable", 0, 0)
    [] b0 = 255 -> Op("ResetVector", 56, 0)
    [] OTHER -> Op("Unmodelled", b0, 0)

\* decode: the op of the first byte; the arms of the opcodes the model's
\* programs use, any other opcode below 0xce being left out of the model
decode_op(b0, b1, b2) ==
  CASE b0 = 0 -> Op("NoOp", 0, 0)
    [] b0 = 1 -> Op("Load16", "BC", read_u16(b1, b2))
    [] b0 = 6 -> Op("Load8Immediate", "B", b1)
    [] b0 = 14 -> Op("Load8Immediate", "C", b1)
    [] b0 = 16 -> Op("Stop", 0, 0)
    [] b0 = 17 -> Op("Load16", "DE", read_u16(b1, b2))
    [] b0 = 24 -> Op("JumpRelative", "Always", as_i8(b1))
    [] b0 = 32 -> Op("JumpRelative", "NonZero", as_i8(b1))
    [] b0 = 33 -> Op("Load16", "HL", read_u16(b1, b2))
    [] b0 = 39 -> Op("DAA", 0, 0)
    [] b0 = 40 -> Op("JumpRelative", "Zero", as_i8(b1))
    [] b0 = 47 -> Op("ComplementA", 0, 0)
    [] b0 = 48 -> Op("JumpRelative", "NoCarry", as_i8(b1))
    [] b0 = 49 -> Op("Load16", "SP", read_u16(b1, b2))
    [] b0 = 55 -> Op("SetCarryFlag", 0, 0)
    [] b0 = 56 -> Op("JumpRelative", "Carry", as_i8(b1))
    [] b0 = 60 -> Op("Increment8", "A", 0)
    [] b0 = 61 -> Op("Decrement8", "A", 0)
    [] b0 = 62 -> Op("Load8Immediate", "A", b1)
    [] b0 = 63 -> Op("ComplementCarryFlag", 0, 0)
    [] b0 = 118 -> Op("Halt", 0, 0)
    [] b0 = 194 -> Op("Jump", "NonZero", read_u16(b1, b2))
    [] b0 = 195 -> Op("Jump", "Always", read_u16(b1, b2))
    [] b0 = 196 -> Op("Call", "NonZero", read_u16(b1, b2))
    [] b0 = 198 -> Op("AddAbsolute8", b1, 0)
    [] b0 = 202 -> Op("Jump", "Zero", read_u16(b1, b2))
    [] b0 = 205 -> Op("Call", "Always", read_u16(b1, b2))
    [] b0 \in {192, 193, 197, 201} \/ b0 >= 206 -> decode_high_op(b0, b1, b2)
    [] OTHER -> Op("Unmodelled", b0, 0)

\* decode: (op, length, cycles) of the instruction bytes
decode(b0, b1, b2) ==
  LET op == decode_op(b0, b1, b2)
  IN  IF op.kind \in HighOpcodeKinds
        THEN <<op, decode_high_opcode(op)[1], decode_high_opcode(op)[2]>>
        ELSE <<op, decode_length(op), decode_cycles(op)>>

----------------------------------------------------------------------------
(* interpreter/mod.rs: helpers.  A run works on c = [r, m, panic, status]:  *)
(* the registers, the memory, whether the host has panicked, and the       *)
(* status code of the last op.                                             *)

Cpu(r, m) ==
  [r |-> r, m |-> m, panic |-> FALSE, status |-> STATUS_NORMAL,
   op |-> Op("None", 0, 0)]

\* a bus write made by the running code
bus_write(c, addr, value) ==
  IF c.panic THEN c
  ELSE IF memory_write_ok(c.m, addr)
    THEN [c EXCEPT !.m = memory_write_byte(c.m, addr, value)]
  ELSE [c EXCEPT !.panic = TRUE]

\* the panic of a bus read made by the running code
bus_read_check(c, addr) ==
  IF c.panic \/ memory_read_ok(c.m, addr) THEN c ELSE [c EXCEPT !.panic = TRUE]

\* registers.ip += length
ip_add(c, length) == [c EXCEPT !.r.ip = wrapping_add32(@, length)]

get_register(r, reg) ==
  CASE reg = "A" -> (r.af \div 256) % 256
    [] reg = "B" -> (r.bc \div 256) % 256
    [] reg = "C" -> r.bc % 256

set_register(r, reg, value) ==
  CASE reg = "A" -> set_a(r, value)
    [] reg = "B" -> [r EXCEPT !.bc = BitOr(BitAnd(r.bc, 255), value * 256)]
    [] reg = "C" -> [r EXCEPT !.bc = BitOr(BitAnd(r.bc, 65280), value)]

get_register_16(r, reg) ==
  CASE reg = "AF" -> r.af % 65536
    [] reg = "BC" -> r.bc % 65536
    [] reg = "DE" -> r.de % 65536
    [] reg = "HL" -> r.hl % 65536
    [] reg = "SP" -> as_u16(r.sp)

set_register_16(r, reg, value) ==
  CASE reg = "AF" -> [r EXCEPT !.af = value]
    [] reg = "BC" -> [r EXCEPT !.bc = value]
    [] reg = "DE" -> [r EXCEPT !.de = value]
    [] reg = "HL" -> [r EXCEPT !.hl = value]
    [] reg = "SP" -> [r EXCEPT !.sp = U32(value)]

\* apply_mask: registers.af &= (0xff00 | !mask) as u32
apply_mask(r, mask) == [r EXCEPT !.af = BitAnd(@, BitOr(65280, Not8(mask)))]

or_flag(r, bit) == [r EXCEPT !.af = BitOr(@, bit)]

test_zero(r, value) == IF value = 0 THEN or_flag(r, 128) ELSE r

test_half_carry(r, flag) == IF flag THEN or_flag(r, 32) ELSE r

set_half_carry(r) == or_flag(r, 32)

test_carry(r, flag) == IF flag THEN or_flag(r, 16) ELSE r

set_carry(r) == or_flag(r, 16)

complement_carry(r) == [r EXCEPT !.af = BitXor(@, 16)]

set_negative(r) == or_flag(r, 64)

\* carry_add: (value, overflow, half carry)
carry_add(a, b) ==
  <<(a + b) % 256, a + b > 255, (a % 16) + (b % 16) > 15>>

\* carry_sub: (value, overflow, half carry)
carry_sub(a, b) ==
  <<(a + 256 - b) % 256, a < b, (a % 16) < (b % 16)>>

\* push: the high byte at SP-1, then the low byte at SP-2
push(c, value) ==
  LET addr1 == wrapping_sub16(get_register_16(c.r, "SP"), 1)
      addr2 == wrapping_sub16(addr1, 1)
      c1 == bus_write(c, addr1, value \div 256)
      c2 == bus_write(c1, addr2, value % 256)
  IN  [c2 EXCEPT !.r = set_register_16(@, "SP", addr2)]

\* pop: the value read at SP and SP+1
pop_value(c) ==
  LET addr == get_register_16(c.r, "SP")
  IN  memory_read_byte(c.m, wrapping_add16(addr, 1)) * 256
        + memory_read_byte(c.m, addr)

\* pop: the state after the two reads
pop_state(c) ==
  LET addr == get_register_16(c.r, "SP")
      c1 == bus_read_check(bus_read_check(c, addr), wrapping_add16(addr, 1))
  IN  [c1 EXCEPT !.r = set_register_16(@, "SP", wrapping_add16(addr, 2))]

\* the flag test of a conditional jump, call or return
should_jump(cond, af) ==
  CASE cond = "Always" -> TRUE
    [] cond = "Zero" -> BitAnd(af, 128) # 0
    [] cond = "Carry" -> BitAnd(af, 16) # 0
    [] cond = "NonZero" -> BitAnd(af, 128) = 0
    [] cond = "NoCarry" -> BitAnd(af, 16) = 0

add_cycles(c, n) == [c EXCEPT !.r.cycles = @ + n]

----------------------------------------------------------------------------
(* interpreter/mod.rs: the operations *)

interp_load_8_immediate(c, reg, value, length) ==
  ip_add([c EXCEPT !.r = set_register(@, reg, value)], length)

interp_load_16(c, dest, value, length) ==
  ip_add([c EXCEPT !.r = set_register_16(@, dest, value)], length)

interp_load_a_to_memory(c, addr, length) ==
  ip_add(bus_write(c, addr, get_register(c.r, "A")), length)

interp_push(c, reg, length) ==
  ip_add(push(c, get_register_16(c.r, reg)), length)

\* POP: a pop into AF drops the low four bits
\* interp_pop storing the word popped into AF as it was read
interp_pop_unmasked(c, reg, length) ==
  LET raw == pop_value(c)
  IN  ip_add([pop_state(c) EXCEPT !.r = set_register_16(@, reg, raw)], length)

interp_pop(c, reg, length) ==
  LET raw == pop_value(c)
      value == IF reg = "AF" THEN BitAnd(raw, 65520) ELSE raw
  IN  ip_add([pop_state(c) EXCEPT !.r = set_register_16(@, reg, value)], length)

interp_add_absolute_8(c, value, length) ==
  LET res == carry_add(get_register(c.r, "A"), value)
      r1 == apply_mask(set_register(c.r, "A", res[1]), 240)
      r2 == test_zero(test_half_carry(test_carry(r1, res[2]), res[3]), res[1])
  IN  ip_add([c EXCEPT !.r = r2], length)

interp_sub_absolute_8(c, value, length) ==
  LET res == carry_sub(get_register(c.r, "A"), value)
      r1 == apply_mask(set_register(c.r, "A", res[1]), 240)
      r2 == test_half_carry(test_carry(r1, res[2]), res[3])
      r3 == test_zero(set_negative(r2), res[1])
  IN  ip_add([c EXCEPT !.r = r3], length)

interp_increment_8(c, reg, length) ==
  LET res == carry_add(get_register(c.r, reg), 1)
      r1 == apply_mask(set_register(c.r, reg, res[1]), 224)
      r2 == test_zero(test_half_carry(r1, res[3]), res[1])
  IN  ip_add([c EXCEPT !.r = r2], length)

interp_decrement_8(c, reg, length) ==
  LET res == carry_sub(get_register(c.r, reg), 1)
      r1 == apply_mask(set_register(c.r, reg, res[1]), 224)
      r2 == test_zero(set_negative(test_half_carry(r1, res[3])), res[1])
  IN  ip_add([c EXCEPT !.r = r2], length)

interp_complement_a(c, length) ==
  LET r1 == set_register(c.r, "A", Not8(get_register(c.r, "A")))
  IN  ip_add([c EXCEPT !.r = set_half_carry(set_negative(r1))], length)

interp_set_carry(c, length) ==
  ip_add([c EXCEPT !.r = set_carry(apply_mask(@, 112))], length)

interp_complement_carry(c, length) ==
  ip_add([c EXCEPT !.r = complement_carry(apply_mask(@, 96))], length)

\* ADD SP, offset: offset is an i8 in -128..127
interp_add_sp(c, offset, length) ==
  LET value == get_register_16(c.r, "SP")
      off8 == (offset + 256) % 256
      result == IF offset >= 0 THEN wrapping_add16(value, offset)
                ELSE wrapping_sub16(value, -offset)
      carry == (value % 256) + off8 > 255
      hc == (value % 16) + (off8 % 16) > 15
      r1 == apply_mask(set_register_16(c.r, "SP", result), 240)
  IN  ip_add([c EXCEPT !.r = test_half_carry(test_carry(r1, carry), hc)], length)

\* DAA: af is a u32 here, kept as halves x = [hi, lo] while it is adjusted
interp_daa(c, length) ==
  LET x0 == U32(c.r.af)
      a == get_register(c.r, "A")
      n_clear(x) == BitAnd(x.lo, 64) = 0
      fix_low == BitAnd(x0.lo, 32) # 0 \/ (n_clear(x0) /\ a % 16 > 9)
      x1 == IF ~fix_low THEN x0
            ELSE IF n_clear(x0) THEN wrapping_add32(x0, 1536)
            ELSE LET y == wrapping_sub32(x0, 1536)
                 IN  IF BitAnd(y.lo, 16) = 0 THEN [y EXCEPT !.hi = 0] ELSE y
      fix_high == BitAnd(x1.lo, 16) # 0
                  \/ (n_clear(x1) /\
                      (x1.hi % 256) * 65536 + (x1.lo - (x1.lo % 256)) > 40704)
      x2 == IF ~fix_high THEN x1
            ELSE IF n_clear(x1) THEN wrapping_add32(x1, 24576)
            ELSE wrapping_sub32(x1, 24576)
      lo3 == IF x2.hi # 0 THEN BitOr(x2.lo, 16) ELSE x2.lo
      af4 == BitAnd(lo3, 65360)
      af5 == IF BitAnd(af4, 65280) = 0 THEN BitOr(af4, 128) ELSE af4
  IN  ip_add([c EXCEPT !.r.af = af5], length)

interp_jump(c, cond, addr) ==
  IF cond = "Always" THEN [c EXCEPT !.r.ip = U32(addr)]
  ELSE IF should_jump(cond, c.r.af)
    THEN add_cycles([c EXCEPT !.r.ip = U32(addr)], 1)
  ELSE ip_add(c, 3)

interp_jump_hl(c) == [c EXCEPT !.r.ip = U32(get_register_16(c.r, "HL"))]

\* JR: the offset is added to the u32 ip with u32 wrapping arithmetic
interp_jump_relative(c, cond, offset) ==
  LET c1 == [c EXCEPT !.r.ip = wrapping_add32(@, 2)]
  IN  IF should_jump(cond, c.r.af)
        THEN add_cycles(
               [c1 EXCEPT !.r.ip = IF offset >= 0 THEN wrapping_add32(@, offset)
                                   ELSE wrapping_sub32(@, -offset)], 1)
        ELSE c1

interp_call(c, cond, addr) ==
  LET c1 == [c EXCEPT !.r.ip = wrapping_add32(@, 3)]
  IN  IF should_jump(cond, c.r.af)
        THEN add_cycles([push(c1, as_u16(c1.r.ip)) EXCEPT !.r.ip = U32(addr)], 3)
        ELSE c1

interp_reset(c, vector) ==
  LET c1 == [c EXCEPT !.r.ip = wrapping_add32(@, 1)]
  IN  [push(c1, as_u16(c1.r.ip)) EXCEPT !.r.ip = U32(vector)]

interp_return(c, cond) ==
  LET c1 == ip_add(c, 1)
  IN  IF should_jump(cond, c.r.af)
        THEN add_cycles([pop_state(c1) EXCEPT !.r.ip = U32(pop_value(c1))], 3)
        ELSE c1

interp_reti(c) ==
  [pop_state(c) EXCEPT !.r.ip = U32(pop_value(c)),
                       !.status = STATUS_INTERRUPT_ENABLE]

\* run_op: the effect of one op and the status it returns
run_op(op, c0, length) ==
  LET c == [c0 EXCEPT !.status = STATUS_NORMAL]
  IN  CASE op.kind = "NoOp" -> ip_add(c, length)
        [] op.kind = "Load16" -> interp_load_16(c, op.a, op.b, length)
        [] op.kind = "Load8Immediate" ->
             interp_load_8_immediate(c, op.a, op.b, length)
        [] op.kind = "Increment8" -> interp_increment_8(c, op.a, length)
        [] op.kind = "Decrement8" -> interp_decrement_8(c, op.a, length)
        [] op.kind = "AddAbsolute8" -> interp_add_absolute_8(c, op.a, length)
        [] op.kind = "SubAbsolute8" -> interp_sub_absolute_8(c, op.a, length)
        [] op.kind = "ComplementA" -> interp_complement_a(c, length)
        [] op.kind = "SetCarryFlag" -> interp_set_carry(c, length)
        [] op.kind = "ComplementCarryFlag" -> interp_complement_carry(c, length)
        [] op.kind = "LoadAToMemory" -> interp_load_a_to_memory(c, op.a, length)
        [] op.kind = "Push" -> interp_push(c, op.a, length)
        [] op.kind = "Pop" -> interp_pop(c, op.a, length)
        [] op.kind = "AddSP" -> interp_add_sp(c, op.a, length)
        [] op.kind = "DAA" -> interp_daa(c, length)
        [] op.kind = "Jump" -> interp_jump(c, op.a, op.b)
        [] op.kind = "JumpHL" -> interp_jump_hl(c)
        [] op.kind = "JumpRelative" -> interp_jump_relative(c, op.a, op.b)
        [] op.kind = "Call" -> interp_call(c, op.a, op.b)
        [] op.kind = "ResetVector" -> interp_reset(c, op.a)
        [] op.kind = "Return" -> interp_return(c, op.a)
        [] op.kind = "ReturnFromInterrupt" -> interp_reti(c)
        [] op.kind = "Stop" -> [ip_add(c, 1) EXCEPT !.status = STATUS_STOP]
        [] op.kind = "Halt" -> [ip_add(c, 1) EXCEPT !.status = STATUS_HALT]
        [] op.kind = "InterruptEnable" ->
             [ip_add(c, 1) EXCEPT !.status = STATUS_INTERRUPT_ENABLE]
        [] op.kind = "InterruptDisable" ->
             [ip_add(c, 1) EXCEPT !.status = STATUS_INTERRUPT_DISABLE]
        [] OTHER -> [c EXCEPT !.panic = TRUE]

\* the instruction at ip as decode returns it
fetch(mem, ip) ==
  decode(exec_slice_byte(mem, ip, 0), exec_slice_byte(mem, ip, 1),
         exec_slice_byte(mem, ip, 2))

\* the bytes of the slice decode indexes for this instruction (Stop and the
\* invalid variant read the first byte only)
bytes_read(d) == IF d[1].kind \in {"Stop", "Invalid", "Unmodelled"} THEN 1 ELSE d[2]

\* run_next_op: fetch at ip, decode, run, charge cycles / 4.  The slice must
\* exist and hold every byte the decoder reads; the slices are never empty,
\* so the None result is not produced
run_next_op(c0) ==
  The({ IF c.panic THEN c
        ELSE IF ~exec_slice_ok(c.m, c.r.ip) THEN [c EXCEPT !.panic = TRUE]
        ELSE IF exec_slice_len(c.m, c.r.ip) < bytes_read(d)
          THEN [c EXCEPT !.panic = TRUE]
        ELSE add_cycles(run_op(d[1], [c EXCEPT !.op = d[1]], d[2]), d[3] \div 4)
        : c \in {c0}, d \in {fetch(c0.m, c0.r.ip)} })

\* interpreter::run_code_block: ops run until one ends the block; `fuel`
\* bounds the ops of one block in the model
RECURSIVE interpreter_run_code_block(_, _)
interpreter_run_code_block(c, fuel) ==
  The({ IF c1.panic \/ should_break \/ fuel <= 1 THEN c1
        ELSE interpreter_run_code_block(c1, fuel - 1)
        : c1 \in {run_next_op(c)},
          should_break \in {is_block_end(fetch(c.m, c.r.ip)[1])} })

----------------------------------------------------------------------------
(* emitter/x86_64.rs: the effect of the host code emitted for an op.  The   *)
(* prelude loads sp, ip and cycles as 16-bit values into r8w, r9w, r11w and *)
(* the epilogue stores them back as 16-bit values, so a translated block    *)
(* changes the low halves of sp and ip only, and no emitted code adds to    *)
(* r11.  The bus functions the code calls are taken to preserve r8..r11.    *)

\* the ops whose emitted code the model covers
JitOps ==
  {"NoOp", "Stop", "Halt", "InterruptEnable", "InterruptDisable", "Load16",
   "Load8Immediate", "LoadAToMemory", "Jump", "JumpRelative", "Push", "Pop",
   "ReturnFromInterrupt", "ResetVector"}

\* emit_ip_increment: add r9, amount
emit_ip_increment(c, amount) ==
  [c EXCEPT !.r.ip.lo = wrapping_add16(@, amount)]

\* emit_ip_signed_offset: add r9w, offset
emit_ip_signed_offset(c, offset) ==
  [c EXCEPT !.r.ip.lo = (@ + 65536 + offset) % 65536]

\* emit_return_code: mov r10b, code
emit_return_code(c, code) == [c EXCEPT !.status = code]

\* emit_move_16 into the host register of a guest register pair
emit_move_16(c, dest, value) ==
  IF dest = "SP" THEN [c EXCEPT !.r.sp.lo = value]
  ELSE IF dest = "IP" THEN [c EXCEPT !.r.ip.lo = value]
  ELSE [c EXCEPT !.r = set_register_16(@, dest, value)]

\* emit_move_8 into ah, bh or bl
emit_move_8(c, dest, value) == [c EXCEPT !.r = set_register(@, dest, value)]

\* emit_flag_test and the conditional host jump that follows it: whether the
\* guest branch is taken
emit_flag_test(c, cond) == should_jump(cond, c.r.af)

\* emit_write_a_to_memory: memory_write_byte(mem, address, ah)
emit_write_a_to_memory(c, address) ==
  bus_write(c, address, get_register(c.r, "A"))

\* emit_push: r8 = (r8 - 2) & 0xffff, then memory_write_word(mem, r8, source)
\* stores the low byte at r8 and the high byte at r8 + 1
emit_push(c, value) ==
  LET addr == wrapping_sub16(c.r.sp.lo, 2)
      c1 == bus_write(c, addr, value % 256)
      c2 == bus_write(c1, wrapping_add16(addr, 1), value \div 256)
  IN  [c2 EXCEPT !.r.sp.lo = addr]

\* emit_pop: memory_read_word(mem, r8), r8 = (r8 + 2) & 0xffff, the word moved
\* to dest; a pop into ax is followed by and al, 0xf0
emit_pop(c, dest) ==
  LET addr == c.r.sp.lo
      c1 == bus_read_check(bus_read_check(c, addr), wrapping_add16(addr, 1))
      raw == pop_value(c)
      value == IF dest = "AF" THEN BitAnd(raw, 65520) ELSE raw
  IN  emit_move_16([c1 EXCEPT !.r.sp.lo = wrapping_add16(addr, 2)], dest, value)

\* encode_jump
encode_jump(c, cond, address) ==
  IF cond = "Always" THEN emit_move_16(c, "IP", address)
  ELSE LET c1 == emit_ip_increment(c, 3)
       IN  IF emit_flag_test(c, cond) THEN emit_move_16(c1, "IP", address)
           ELSE c1

\* encode_jump_relative: the carry conditions step ip by 3
encode_jump_relative(c, cond, offset) ==
  LET c1 == emit_ip_increment(c, IF cond \in {"Carry", "NoCarry"} THEN 3 ELSE 2)
  IN  IF emit_flag_test(c, cond) THEN emit_ip_signed_offset(c1, offset) ELSE c1

\* encode_op: the effect of running the code emitted for op
encode_op(op, c, ip_increment) ==
  CASE op.kind = "NoOp" -> emit_ip_increment(c, 1)
    [] op.kind = "Stop" ->
         emit_ip_increment(emit_return_code(c, STATUS_STOP), ip_increment)
    [] op.kind = "Halt" ->
         emit_ip_increment(emit_return_code(c, STATUS_HALT), ip_increment)
    [] op.kind = "InterruptEnable" ->
         emit_ip_increment(emit_return_code(c, STATUS_INTERRUPT_ENABLE),
                           ip_increment)
    [] op.kind = "InterruptDisable" ->
         emit_ip_increment(emit_return_code(c, STATUS_INTERRUPT_DISABLE),
                           ip_increment)
    [] op.kind = "Load16" ->
         emit_ip_increment(emit_move_16(c, op.a, op.b), ip_increment)
    [] op.kind = "Load8Immediate" ->
         emit_ip_increment(emit_move_8(c, op.a, op.b), ip_increment)
    [] op.kind = "LoadAToMemory" ->
         emit_ip_increment(emit_write_a_to_memory(c, op.a), ip_increment)
    [] op.kind = "Push" ->
         emit_ip_increment(emit_push(c, get_register_16(c.r, op.a)),
                           ip_increment)
    [] op.kind = "Pop" -> emit_ip_increment(emit_pop(c, op.a), ip_increment)
    [] op.kind = "Jump" -> encode_jump(c, op.a, op.b)
    [] op.kind = "JumpRelative" -> encode_jump_relative(c, op.a, op.b)
    [] op.kind = "ReturnFromInterrupt" ->
         emit_return_code(emit_pop(c, "IP"), STATUS_INTERRUPT_ENABLE)
    [] op.kind = "ResetVector" ->
         LET c1 == emit_ip_increment(c, 1)
         IN  emit_move_16(emit_push(c1, c1.r.ip.lo), "IP", op.a)

----------------------------------------------------------------------------
(* cache/blocks.rs: the lookup regions.  A region's cache maps the u32 key  *)
(* (bank << 16) | address to a CodeBlock [offset, bytes_translated]; the    *)
(* host length of a block is not kept.                                      *)

\* Option: None is the empty sequence, Some(x) the sequence <<x>>
None == << >>

Some(x) == <<x>>

\* the region of an address outside every region
NoRegion == "none"

\* MemoryLocation::as_u32
as_u32(bank, address) == bank * 65536 + address

\* MemoryLocation::from_u32(key).address
key_address(key) == key % 65536

\* CacheRegion::new
CacheRegion_new(current_bank) == [cache |-> << >>, current_bank |-> current_bank]

\* CacheRegion::insert
CacheRegion_insert(region, address, block) ==
  LET key == as_u32(region.current_bank, address)
  IN  [region EXCEPT !.cache =
         [k \in DOMAIN region.cache \cup {key} |->
            IF k = key THEN block ELSE region.cache[k]]]

\* CacheRegion::get
CacheRegion_get(region, address) ==
  LET key == as_u32(region.current_bank, address)
  IN  IF key \in DOMAIN region.cache THEN Some(region.cache[key]) ELSE None

\* whether the guest extent of the block stored under key holds address
block_contains(region, key, address) ==
  /\ address >= key_address(key)
  /\ address < key_address(key) + region.cache[key].bytes_translated

\* CacheRegion::invalidate_containing: the first block, in key order, whose
\* extent holds the address is removed
invalidate_containing(region, address) ==
  LET hits == {k \in DOMAIN region.cache : block_contains(region, k, address)}
  IN  IF hits = {} THEN region
      ELSE LET found == CHOOSE k \in hits : \A j \in hits : k <= j
           IN  [region EXCEPT !.cache =
                  [k \in DOMAIN region.cache \ {found} |-> region.cache[k]]]

\* CachedBlocks::new
CachedBlocks_new ==
  [rom_low |-> CacheRegion_new(0), rom_high |-> CacheRegion_new(1),
   cart_ram |-> CacheRegion_new(0), wram_low |-> CacheRegion_new(0),
   wram_high |-> CacheRegion_new(1), high_ram |-> CacheRegion_new(0)]

\* CachedBlocks::get_region / get_region_mut: the name of the region of addr
get_region(addr) ==
  IF addr < 16384 THEN "rom_low"
  ELSE IF addr < 32768 THEN "rom_high"
  ELSE IF addr < 40960 THEN NoRegion
  ELSE IF addr < 49152 THEN "cart_ram"
  ELSE IF addr < 53248 THEN "wram_low"
  ELSE IF addr < 57344 THEN "wram_high"
  ELSE IF addr < 65408 THEN NoRegion
  ELSE IF addr # 65535 THEN "high_ram"
  ELSE NoRegion

----------------------------------------------------------------------------
(* cache/mod.rs: the code cache.  exec_memory is the sequence of translated *)
(* blocks; a block's offset is its position in it.  Each translated block   *)
(* keeps its ops with their lengths and, for observation only, the ROM bank *)
(* that was selected when it was translated.                                *)

\* CodeCache::new
CodeCache_new == [code_blocks |-> CachedBlocks_new, exec_memory |-> << >>]

\* CodeCache::get_address_for_ip
get_address_for_ip(cc, ip) ==
  LET gb_ip == ip % 65536
      name == get_region(gb_ip)
  IN  IF name = NoRegion THEN None
      ELSE LET block == CacheRegion_get(cc.code_blocks[name], gb_ip)
           IN  IF block = None THEN None ELSE Some(block[1].offset)

\* CodeCache::get_executable_memory_segment: whether the slice can be taken
segment_ok(mem, ip) ==
  IF ip < 16384 THEN 16384 <= mem.rom_len
  ELSE IF ip < 32768
    THEN (get_rom_bank(mem.cart_state) + 1) * 16384 <= mem.rom_len
  ELSE IF 49152 <= ip /\ ip < 53248 THEN 4096 <= mem.work_ram_len
  ELSE IF 53248 <= ip /\ ip < 57344
    THEN (mem.wram_bank + 1) * 4096 <= mem.work_ram_len
  ELSE FALSE

\* CodeCache::get_executable_memory_segment: the length of the slice
segment_len(ip) ==
  IF ip < 32768 THEN 16384 - (ip % 16384) ELSE 4096 - (ip % 4096)

\* the ops one block may hold in the model
MaxBlockOps == 8

\* translate_code_block: the decode loop from index to the first op that ends
\* the block; the result holds the (op, length) pairs encoded, the index
\* reached, and whether the host panicked (no segment at index, an operand
\* outside the slice, or encode_op of the invalid variant)
RECURSIVE translate_ops(_, _, _)
translate_ops(mem, index0, fuel) ==
  The({ IF ~segment_ok(mem, index)
          THEN [ops |-> << >>, index |-> index, panic |-> TRUE]
        ELSE IF segment_len(index) < bytes_read(d)
                \/ d[1].kind \in {"Invalid", "Unmodelled"}
          THEN [ops |-> << >>, index |-> index, panic |-> TRUE]
        ELSE IF is_block_end(d[1]) \/ fuel <= 1
          THEN [ops |-> << <<d[1], d[2]>> >>, index |-> index + d[2],
                panic |-> FALSE]
        ELSE The({ [rest EXCEPT !.ops = << <<d[1], d[2]>> >> \o @]
                   : rest \in {translate_ops(mem, index + d[2], fuel - 1)} })
        : index \in {index0}, d \in {fetch(mem, U32(index0))} })

\* CodeCache::translate_code_block with insert_code_block: the cache after
\* the translation, the offset of the new block, and whether the host panicked
translate_code_block(cc, mem, ip) ==
  The({ LET starting_offset == Len(cc.exec_memory) + 1
            name == get_region(ip % 65536)
            block == [offset |-> starting_offset,
                      bytes_translated |-> t.index - ip]
        IN  IF t.panic \/ name = NoRegion
              THEN [cc |-> cc, offset |-> 0, panic |-> TRUE]
            ELSE [cc |-> [cc EXCEPT
                            !.exec_memory =
                              Append(@, [ops |-> t.ops,
                                         rom_bank |-> get_rom_bank(mem.cart_state)]),
                            !.code_blocks[name] =
                              CacheRegion_insert(@, ip % 65536, block)],
                  offset |-> starting_offset, panic |-> FALSE]
        : t \in {translate_ops(mem, ip, MaxBlockOps)} })

\* the ops of a translated block run in order
RECURSIVE run_translated(_, _)
run_translated(ops, c0) ==
  The({ IF ops = << >> \/ c.panic THEN c
        ELSE run_translated(Tail(ops),
               The({ c1 : c1 \in {encode_op(Head(ops)[1],
                                             [c EXCEPT !.op = Head(ops)[1]],
                                             Head(ops)[2])} }))
        : c \in {c0} })

\* CodeCache::call: prelude (r10 = 0), the block at offset, epilogue
call(cc, offset, c) ==
  run_translated(cc.exec_memory[offset].ops, [c EXCEPT !.status = STATUS_NORMAL])

\* CodeCache::invalidate_dirty_wram: the dirty addresses in ascending order
RECURSIVE invalidate_dirty_wram(_, _)
invalidate_dirty_wram(cc0, dirty) ==
  The({ IF dirty = {} THEN cc
        ELSE LET addr == CHOOSE a \in dirty : \A b \in dirty : a <= b
                 name == IF (addr - 49152) \div 64 < 64 THEN "wram_low"
                         ELSE "wram_high"
             IN  invalidate_dirty_wram(
                   [cc EXCEPT !.code_blocks[name] = invalidate_containing(@, addr)],
                   dirty \ {addr})
        : cc \in {cc0} })

----------------------------------------------------------------------------
(* mem.rs, emulator.rs: the orchestrator.  A call works on                  *)
(* k = [r, m, panic, status, op, ie, rs, cc, lbcl, dev]: the cpu run       *)
(* record with interrupts_enabled, run_state, the cache,                   *)
(* last_block_cycle_length and the devices of memory.io.                   *)

\* MemoryAreas::run_clock_cycles, OAM DMA part: n bytes copied
RECURSIVE dma_copy(_, _, _, _)
dma_copy(c0, source, offset, n) ==
  The({ IF n = 0 \/ c.panic THEN c
        ELSE IF n = 1
          THEN LET src == (source + offset) % 65536
                   c1 == bus_read_check(c, src)
               IN  bus_write(c1, 65024 + offset, memory_read_byte(c.m, src))
        ELSE dma_copy(dma_copy(c, source, offset, n \div 2),
                      source, offset + n \div 2, n - n \div 2)
        : c \in {c0} })

\* run_clock_cycles copying one byte per clock cycle
run_clock_cycles_per_clock(c0, cycles) ==
  The({ LET dma == c.m.oam_dma
            remaining == 160 - dma.current_offset
            n == IF remaining < cycles THEN remaining ELSE cycles
            c1 == dma_copy(c, dma.source, dma.current_offset, n)
            next == IF dma.current_offset + n < 160
                      THEN [dma EXCEPT !.current_offset = @ + n]
                      ELSE DMA_None
        IN  IF dma.active THEN [c1 EXCEPT !.m.oam_dma = next] ELSE c
        : c \in {c0} })

\* MemoryAreas::run_clock_cycles, the OAM DMA copy.  Its last statement,
\* IO::run_clock_cycles, is IO_run_clock_cycles.
run_clock_cycles(c0, cycles) ==
  The({ LET dma == c.m.oam_dma
            remaining == 160 - dma.current_offset
            n == IF remaining < cycles \div 4 THEN remaining ELSE cycles \div 4
            c1 == dma_copy(c, dma.source, dma.current_offset, n)
            next == IF dma.current_offset + n < 160
                      THEN [dma EXCEPT !.current_offset = @ + n]
                      ELSE DMA_None
        IN  IF dma.active THEN [c1 EXCEPT !.m.oam_dma = next] ELSE c
        : c \in {c0} })

\* MemoryAreas::run_clock_cycles on a Core: the OAM DMA copy, then
\* IO::run_clock_cycles on the timer, the video unit and the joypad
MemoryAreas_run_clock_cycles(k0, cycles) ==
  The({ IF k1.panic THEN k1
        ELSE The({ [k1 EXCEPT !.m.io = x.io,
                              !.dev = [timer |-> x.timer, joypad |-> x.joypad,
                                       video |-> x.video]]
                   : x \in {IO_run_clock_cycles(
                              [io |-> k1.m.io, timer |-> k1.dev.timer,
                               joypad |-> k1.dev.joypad,
                               video |-> k1.dev.video], cycles)} })
        : k1 \in {run_clock_cycles(k0, cycles)} })

\* the vector table searched from the input interrupt down
interrupt_vector_highest_first(interrupts_updated) ==
  IF interrupts_updated = 0 THEN <<0, 0>>
  ELSE IF BitAnd(interrupts_updated, 16) # 0 THEN <<96, 16>>
  ELSE IF BitAnd(interrupts_updated, 8) # 0 THEN <<88, 8>>
  ELSE IF BitAnd(interrupts_updated, 4) # 0 THEN <<80, 4>>
  ELSE IF BitAnd(interrupts_updated, 2) # 0 THEN <<72, 2>>
  ELSE <<64, 1>>

\* Core::handle_interrupt, the vector table: <<vector, clear>>
interrupt_vector(interrupts_updated) ==
  IF interrupts_updated = 0 THEN <<0, 0>>
  ELSE IF BitAnd(interrupts_updated, 1) # 0 THEN <<64, 1>>
  ELSE IF BitAnd(interrupts_updated, 2) # 0 THEN <<72, 2>>
  ELSE IF BitAnd(interrupts_updated, 4) # 0 THEN <<80, 4>>
  ELSE IF BitAnd(interrupts_updated, 8) # 0 THEN <<88, 8>>
  ELSE <<96, 16>>

\* handle_interrupt without the match on interrupts_enabled
handle_interrupt_unconditional(k0) ==
  The({ LET interrupts == get_active_interrupts(k.m.io)
            sp1 == wrapping_sub32(k.r.sp, 1)
            sp2 == wrapping_sub32(sp1, 1)
        IN  IF k.panic \/ interrupts = 0 THEN k
            ELSE The({ The({ IF k2.panic THEN k2
                             ELSE [k2 EXCEPT
                                     !.m.io.interrupt_flag =
                                       InterruptFlag_clear(@, vc[2]),
                                     !.r.cycles = @ + 5,
                                     !.r.ip = U32(vc[1])]
                             : k2 \in {bus_write([k1 EXCEPT !.r.sp = sp2], sp2.lo,
                                                 k.r.ip.lo % 256)},
                               vc \in {interrupt_vector(
                                         get_active_interrupts(k1.m.io))} })
                       : k1 \in {bus_write([k EXCEPT !.rs = "Run",
                                                     !.ie = "Disabled",
                                                     !.r.sp = sp1],
                                           sp1.lo, (k.r.ip.lo \div 256) % 256)} })
        : k \in {k0} })

\* handle_interrupt choosing the vector from the interrupts read before the
\* push
handle_interrupt_no_reread(k0) ==
  The({ LET interrupts == get_active_interrupts(k.m.io)
            sp1 == wrapping_sub32(k.r.sp, 1)
            sp2 == wrapping_sub32(sp1, 1)
        IN  IF k.panic \/ interrupts = 0 THEN k
            ELSE IF k.ie # "Enabled" THEN [k EXCEPT !.rs = "Run"]
            ELSE The({ The({ IF k2.panic THEN k2
                             ELSE [k2 EXCEPT
                                     !.m.io.interrupt_flag =
                                       InterruptFlag_clear(@, vc[2]),
                                     !.r.cycles = @ + 5,
                                     !.r.ip = U32(vc[1])]
                             : k2 \in {bus_write([k1 EXCEPT !.r.sp = sp2], sp2.lo,
                                                 k.r.ip.lo % 256)},
                               vc \in {interrupt_vector(interrupts)} })
                       : k1 \in {bus_write([k EXCEPT !.rs = "Run",
                                                     !.ie = "Disabled",
                                                     !.r.sp = sp1],
                                           sp1.lo, (k.r.ip.lo \div 256) % 256)} })
        : k \in {k0} })

\* handle_interrupt pushing the low byte of ip first
handle_interrupt_low_byte_first(k0) ==
  The({ LET interrupts == get_active_interrupts(k.m.io)
            sp1 == wrapping_sub32(k.r.sp, 1)
            sp2 == wrapping_sub32(sp1, 1)
        IN  IF k.panic \/ interrupts = 0 THEN k
            ELSE IF k.ie # "Enabled" THEN [k EXCEPT !.rs = "Run"]
            ELSE The({ The({ IF k2.panic THEN k2
                             ELSE [k2 EXCEPT
                                     !.m.io.interrupt_flag =
                                       InterruptFlag_clear(@, vc[2]),
                                     !.r.cycles = @ + 5,
                                     !.r.ip = U32(vc[1])]
                             : k2 \in {bus_write([k1 EXCEPT !.r.sp = sp2], sp2.lo,
                                                 (k.r.ip.lo \div 256) % 256)},
                               vc \in {interrupt_vector(
                                         get_active_interrupts(k1.m.io))} })
                       : k1 \in {bus_write([k EXCEPT !.rs = "Run",
                                                     !.ie = "Disabled",
                                                     !.r.sp = sp1],
                                           sp1.lo, k.r.ip.lo % 256)} })
        : k \in {k0} })

\* handle_interrupt leaving the interrupts enabled after a dispatch
handle_interrupt_stays_enabled(k0) ==
  IF k0.panic \/ get_active_interrupts(k0.m.io) = 0 THEN k0
  ELSE IF k0.ie # "Enabled" THEN [k0 EXCEPT !.rs = "Run"]
  ELSE The({ IF k.panic THEN k ELSE [k EXCEPT !.ie = "Enabled"]
             : k \in {handle_interrupt_unconditional(k0)} })

\* handle_interrupt leaving a core whose interrupts are not enabled as it is
handle_interrupt_enabled_only(k0) ==
  IF k0.ie # "Enabled" THEN k0 ELSE handle_interrupt_unconditional(k0)

\* Core::handle_interrupt
handle_interrupt(k0) ==
  The({ LET interrupts == get_active_interrupts(k.m.io)
            sp1 == wrapping_sub32(k.r.sp, 1)
            sp2 == wrapping_sub32(sp1, 1)
        IN  IF k.panic \/ interrupts = 0 THEN k
            ELSE IF k.ie # "Enabled" THEN [k EXCEPT !.rs = "Run"]
            ELSE The({ The({ IF k2.panic THEN k2
                             ELSE [k2 EXCEPT
                                     !.m.io.interrupt_flag =
                                       InterruptFlag_clear(@, vc[2]),
                                     !.r.cycles = @ + 5,
                                     !.r.ip = U32(vc[1])]
                             : k2 \in {bus_write([k1 EXCEPT !.r.sp = sp2], sp2.lo,
                                                 k.r.ip.lo % 256)},
                               vc \in {interrupt_vector(
                                         get_active_interrupts(k1.m.io))} })
                       : k1 \in {bus_write([k EXCEPT !.rs = "Run",
                                                     !.ie = "Disabled",
                                                     !.r.sp = sp1],
                                           sp1.lo, (k.r.ip.lo \div 256) % 256)} })
        : k \in {k0} })

\* the match on the status a block or an op returned, in run_code_block
block_status(k) ==
  CASE k.status = STATUS_STOP -> [k EXCEPT !.rs = "Stop"]
    [] k.status = STATUS_HALT -> [k EXCEPT !.rs = "Halt"]
    [] k.status = STATUS_INTERRUPT_DISABLE -> [k EXCEPT !.ie = "Disabled"]
    [] k.status = STATUS_INTERRUPT_ENABLE -> [k EXCEPT !.ie = "Enabled"]
    [] OTHER -> k

\* the match on the status an op returned, in run_interp
interp_status(k) ==
  CASE k.status = STATUS_STOP -> [k EXCEPT !.rs = "Stop"]
    [] k.status = STATUS_HALT -> [k EXCEPT !.rs = "Halt"]
    [] k.status = STATUS_INTERRUPT_DISABLE -> [k EXCEPT !.ie = "Disabled"]
    [] k.status = STATUS_INTERRUPT_ENABLE ->
         IF k.ie = "Disabled" THEN [k EXCEPT !.ie = "EnableNext"] ELSE k
    [] OTHER -> k

\* the catch-up advancing the devices by 8 clock cycles per machine cycle
catch_up_eight_per_cycle(k0, record_length) ==
  The({ LET cycles == k.r.cycles
            k1 == [k EXCEPT !.r.cycles = 0,
                            !.lbcl = IF record_length THEN cycles ELSE @]
        IN  IF k.panic THEN k ELSE MemoryAreas_run_clock_cycles(k1, cycles * 8)
        : k \in {k0} })

\* get_consumed_cycles and MemoryAreas::run_clock_cycles: the devices catch up
catch_up(k0, record_length) ==
  The({ LET cycles == k.r.cycles
            k1 == [k EXCEPT !.r.cycles = 0,
                            !.lbcl = IF record_length THEN cycles ELSE @]
        IN  IF k.panic THEN k ELSE MemoryAreas_run_clock_cycles(k1, cycles * 4)
        : k \in {k0} })

\* Core::run_code_block, the block: translated code below 0x8000 when the jit
\* feature is on, the interpreter otherwise
run_block(k, jit_on) ==
  LET ip == k.r.ip
  IN  IF jit_on /\ ip.hi = 0 /\ can_dynarec(ip.lo)
        THEN The({ IF found # None THEN call(k.cc, found[1], k)
                   ELSE The({ IF t.panic THEN [k EXCEPT !.panic = TRUE]
                              ELSE call(t.cc, t.offset, [k EXCEPT !.cc = t.cc])
                              : t \in {translate_code_block(k.cc, k.m, ip.lo)} })
                   : found \in {get_address_for_ip(k.cc, ip.lo)} })
      ELSE interpreter_run_code_block(k, MaxBlockOps)

\* Core::run_code_block up to the call of handle_interrupt
run_code_block_mid(k, jit_on) ==
  The({ catch_up(block_status(k1), TRUE) : k1 \in {run_block(k, jit_on)} })

\* Core::run_code_block
run_code_block(k, jit_on) == handle_interrupt(run_code_block_mid(k, jit_on))

\* Core::run_interp up to the call of handle_interrupt
run_interp_mid(k) ==
  The({ LET k2 == IF k1.ie = "EnableNext" THEN [k1 EXCEPT !.ie = "Enabled"]
                  ELSE k1
        IN  IF k1.panic THEN k1
            ELSE The({ catch_up(k3, FALSE) : k3 \in {interp_status(k2)} })
        : k1 \in {run_next_op(k)} })

\* Core::run_interp
run_interp(k) == handle_interrupt(run_interp_mid(k))

\* Core::update up to the call of handle_interrupt
update_mid(k, jit_on) ==
  IF k.rs = "Run"
    THEN IF jit_on THEN run_code_block_mid(k, TRUE) ELSE run_interp_mid(k)
  ELSE MemoryAreas_run_clock_cycles(k, 4)

\* Core::update
update(k, jit_on) == handle_interrupt(update_mid(k, jit_on))

----------------------------------------------------------------------------
(* The guest programs, as the tests of emulator.rs hand them to            *)
(* Core::with_code_block.                                                  *)

\* code followed by NOPs up to 0x0100 and by tail there
with_code_at_0x100(code, tail) ==
  [i \in 1..(256 + Len(tail)) |->
     IF i <= Len(code) THEN code[i]
     ELSE IF i <= 256 THEN 0
     ELSE tail[i - 256]]

\* programs whose ops all have modelled emitted code
JitPrograms ==
  { \* LD SP,0xc0f0; EI; LD A,0x1f; LD (0xffff),A; LD A,0x10; LD (0xff0f),A
    <<49, 240, 192, 251, 62, 31, 234, 255, 255, 62, 16, 234, 15, 255>>,
    \* LD A,0x10; LD (0xff0f),A; LD (0xffff),A; EI; LD A,0xbb   (SP = 0)
    <<62, 16, 234, 15, 255, 234, 255, 255, 251, 62, 187>>,
    \* LD SP,0xc0f0; LD A,0x10; LD (0xff0f),A; LD (0xffff),A; EI; LD A,0xbb
    <<49, 240, 192, 62, 16, 234, 15, 255, 234, 255, 255, 251, 62, 187>>,
    \* LD A,0x10; LD (0xff0f),A; LD (0xffff),A
    <<62, 16, 234, 15, 255, 234, 255, 255>>,
    \* LD SP,0xc0f0; LD A,0x1f; LD (0xff0f),A; LD A,0x12; LD (0xffff),A; EI
    <<49, 240, 192, 62, 31, 234, 15, 255, 62, 18, 234, 255, 255, 251>>,
    \* LD SP,0xc100; LD BC,0x12ff; PUSH BC; POP AF
    <<49, 0, 193, 1, 255, 18, 197, 241>>,
    \* JR -3
    <<24, 253>>,
    \* NOP
    <<0>>,
    \* STOP
    <<16, 0>>,
    \* EI; DI
    <<251, 243>>,
    \* LD SP,0xc100; LD BC,0x0008; PUSH BC; RETI; NOP
    <<49, 0, 193, 1, 8, 0, 197, 217, 0>>,
    \* LD SP,0x0001; LD A,0x10; LD (0xff0f),A; LD (0xffff),A; EI; NOP
    <<49, 1, 0, 62, 16, 234, 15, 255, 234, 255, 255, 251, 0>>,
    \* LD A,0x1f; LD (0xff0f),A; LD A,0x10; LD (0xffff),A; JP 0x0100, and
    \* EI; NOP at 0x0100   (SP = 0)
    with_code_at_0x100(<<62, 31, 234, 15, 255, 62, 16, 234, 255, 255, 195, 0, 1>>,
                       <<251, 0>>) }

\* programs run by the interpreter only
InterpPrograms ==
  { \* LD A,0x15; ADD A,0x27; DAA
    <<62, 21, 198, 39, 39>>,
    \* LD A,0x9a; SUB 0x0b; DAA; CPL; SCF; CCF
    <<62, 154, 214, 11, 39, 47, 55, 63>>,
    \* LD SP,0xc100; CALL 0x0007; HALT; INC A; RET
    <<49, 0, 193, 205, 7, 0, 118, 60, 201>> }

Programs == JitPrograms \cup InterpPrograms

----------------------------------------------------------------------------
(* The orchestrator as a state machine: the test harness calls run_interp, *)
(* run_code_block and update on a Core built by with_code_block.           *)

\* whether the code at index reaches an op that ends the block (or one that
\* cannot be run) within fuel ops: the blocks explored are those the bound
\* on the ops of a block holds whole
RECURSIVE block_ends_within(_, _, _)
block_ends_within(mem, index, fuel) ==
  LET d == fetch(mem, U32(index))
  IN  \/ is_block_end(d[1])
      \/ d[1].kind \in {"Invalid", "Unmodelled"}
      \/ fuel > 1 /\ block_ends_within(mem, index + d[2], fuel - 1)

\* the Core as the record the operations work on
Core ==
  [r |-> registers, m |-> memory, panic |-> FALSE, status |-> STATUS_NORMAL,
   op |-> Op("None", 0, 0), ie |-> interrupts_enabled, rs |-> run_state,
   cc |-> cache, lbcl |-> last_block_cycle_length,
   dev |-> [timer |-> timer, joypad |-> joypad, video |-> video]]

\* what an observer keeps of a Core at one point of a call
snap(k) == [r |-> k.r, m |-> k.m, ie |-> k.ie, rs |-> k.rs]

\* what an observer keeps of the run of a block
block_result(k) ==
  [r |-> k.r, m |-> k.m, status |-> k.status, panic |-> k.panic]

\* the ops of the translated block run_code_block is about to call (0 when
\* the block runs in the interpreter)
block_ops(k, jit_on) ==
  IF ~(jit_on /\ k.r.ip.hi = 0 /\ can_dynarec(k.r.ip.lo)) THEN 0
  ELSE The({ IF found # None THEN Len(k.cc.exec_memory[found[1]].ops)
             ELSE The({ IF t.panic THEN 0
                        ELSE Len(t.cc.exec_memory[t.offset].ops)
                        : t \in {translate_code_block(k.cc, k.m, k.r.ip.lo)} })
             : found \in {get_address_for_ip(k.cc, k.r.ip.lo)} })

Init ==
  /\ jit \in BOOLEAN
  /\ \E code \in (IF jit THEN JitPrograms ELSE Programs) :
       memory = MemoryAreas_with_rom(code)
  /\ registers = Registers_new
  /\ cache = CodeCache_new
  /\ DevicesNew
  /\ last_block_cycle_length = 0
  /\ interrupts_enabled = "Disabled"
  /\ run_state = "Run"
  /\ host_error = FALSE
  /\ steps = 0
  /\ last = [kind |-> "init", op |-> Op("None", 0, 0), nops |-> 0,
             before |-> snap(Core), mid |-> snap(Core),
             block |-> block_result(Core), interp |-> block_result(Core),
             advance |-> 0]

\* the Core after a call: a host panic ends the run
Commit(kind, nops, mid0, k0, block, interp) ==
  /\ steps' = steps + 1
  /\ UNCHANGED jit
  /\ \E mid \in {mid0}, k \in {k0} :
       IF k.panic \/ mid.panic
         THEN /\ host_error' = TRUE
              /\ UNCHANGED <<registers, memory, interrupts_enabled, run_state,
                             last_block_cycle_length, cache, devices, last>>
         ELSE /\ host_error' = FALSE
              /\ registers' = k.r
              /\ memory' = k.m
              /\ interrupts_enabled' = k.ie
              /\ run_state' = k.rs
              /\ last_block_cycle_length' = k.lbcl
              /\ cache' = k.cc
              /\ timer' = k.dev.timer
              /\ joypad' = k.dev.joypad
              /\ video' = k.dev.video
              /\ last' = [kind |-> kind, op |-> mid.op, nops |-> nops,
                          before |-> snap(Core), mid |-> snap(mid),
                          block |-> The({ block_result(b) : b \in {block} }),
                          interp |-> The({ block_result(b) : b \in {interp} }),
                          advance |-> (k.dev.timer.cycle_count
                                         - timer.cycle_count) % 65536]

RunInterp ==
  /\ steps < MaxSteps /\ ~host_error
  /\ Commit("run_interp", 0, run_interp_mid(Core), run_interp(Core),
            run_next_op(Core), run_next_op(Core))

RunCodeBlock ==
  /\ steps < MaxSteps /\ ~host_error
  /\ exec_slice_ok(memory, registers.ip) =>
       block_ends_within(memory, registers.ip.lo, MaxBlockOps)
  /\ Commit("run_code_block", block_ops(Core, jit),
            run_code_block_mid(Core, jit), run_code_block(Core, jit),
            run_block(Core, jit), interpreter_run_code_block(Core, MaxBlockOps))

Update ==
  /\ steps < MaxSteps /\ ~host_error
  /\ (jit /\ run_state = "Run" /\ exec_slice_ok(memory, registers.ip)) =>
       block_ends_within(memory, registers.ip.lo, MaxBlockOps)
  /\ \E block \in {IF run_state # "Run" THEN Core
                    ELSE IF jit THEN run_block(Core, TRUE)
                    ELSE run_next_op(Core)} :
       Commit("update", 0, update_mid(Core, jit), update(Core, jit),
              block, block)

Next == RunInterp \/ RunCodeBlock \/ Update

Spec == Init /\ [][Next]_vars

----------------------------------------------------------------------------
(* Properties of the orchestrator.  last.mid is the Core as it was when the *)
(* last call reached handle_interrupt, so the step from last.mid to the     *)
(* current state is the interrupt step of that call.  last.block is the     *)
(* Core as the block or the op of the call left it, before the cycle        *)
(* accumulator was read, and last.advance the clock cycles the timer's      *)
(* cycle counter moved by during the call.                                  *)

\* the interrupts pending when the last call reached handle_interrupt
pending_at_mid == get_active_interrupts(last.mid.m.io)

\* the last call's interrupt step had interrupts enabled and one pending
dispatch_due == last.kind # "init" /\ last.mid.ie = "Enabled" /\ pending_at_mid # 0

\* the number of the lowest set bit of a non-zero 5-bit value
lowest_bit(x) ==
  CHOOSE b \in 0..4 :
    /\ (x \div (2 ^ b)) % 2 = 1
    /\ \A j \in 0..(b - 1) : (x \div (2 ^ j)) % 2 = 0

\* the memory at mid after the high byte of ip was pushed
after_high_push ==
  memory_write_byte(last.mid.m, wrapping_sub32(last.mid.r.sp, 1).lo,
                    (last.mid.r.ip.lo \div 256) % 256)

\* the memory at mid after both bytes of ip were pushed
after_both_pushes ==
  memory_write_byte(after_high_push, wrapping_sub32(last.mid.r.sp, 2).lo,
                    last.mid.r.ip.lo % 256)

\* C1: an interrupt is dispatched only when the interrupt-enable state is
\* Enabled and (IF & IE) is non-zero; in every other case the interrupt step
\* leaves the registers (PC, SP) and the memory (stack bytes, IF) as they were
C1_DispatchOnlyWhenEnabledAndPending ==
  (last.kind # "init" /\ ~dispatch_due) =>
     (registers = last.mid.r /\ memory = last.mid.m)

\* C1: a call reached its interrupt step with an interrupt pending while the
\* enable state was not Enabled
C1_Witness ==
  /\ last.kind # "init"
  /\ last.mid.ie # "Enabled"
  /\ pending_at_mid # 0
  /\ ~host_error

\* C2 as stated: a dispatch services the lowest set bit of (IF & IE) as they
\* were when the dispatch began: PC is its vector and exactly that bit of IF
\* is cleared
C2_AsStated ==
  dispatch_due =>
     /\ registers.ip = U32(64 + 8 * lowest_bit(pending_at_mid))
     /\ memory.io.interrupt_flag =
          ClearBits(last.mid.m.io.interrupt_flag, 2 ^ lowest_bit(pending_at_mid))

\* C2 amended: a dispatch services the lowest set bit of (IF & IE) as read
\* again after the high byte of PC was pushed: PC is its vector and that bit
\* is cleared in the IF the two pushes left; when that value is zero PC
\* becomes 0x0000 and no bit is cleared
C2_LowestPendingAfterPush ==
  dispatch_due =>
     LET updated == get_active_interrupts(after_high_push.io)
         flag == after_both_pushes.io.interrupt_flag
     IN  IF updated = 0
           THEN registers.ip = U32(0) /\ memory.io.interrupt_flag = flag
         ELSE /\ registers.ip = U32(64 + 8 * lowest_bit(updated))
              /\ memory.io.interrupt_flag =
                   ClearBits(flag, 2 ^ lowest_bit(updated))

\* C2: a dispatch with IF = 0x1f and IE = 0x12 went to 0x48 and left IF = 0x1d
C2_Witness ==
  /\ dispatch_due
  /\ last.mid.m.io.interrupt_flag = 31
  /\ last.mid.m.io.interrupt_mask = 18
  /\ registers.ip = U32(72)
  /\ memory.io.interrupt_flag = 29

\* C24 as stated: the vector and the cleared bit of a dispatch follow
\* (IF & IE) as the push of both bytes of PC left it: PC is 0x0000 and no bit
\* is cleared when it is zero, PC is the vector of its lowest set bit and that
\* bit is cleared otherwise
C24_FollowsWholePush ==
  dispatch_due =>
     LET updated == get_active_interrupts(after_both_pushes.io)
         flag == after_both_pushes.io.interrupt_flag
     IN  IF updated = 0
           THEN registers.ip = U32(0) /\ memory.io.interrupt_flag = flag
         ELSE /\ registers.ip = U32(64 + 8 * lowest_bit(updated))
              /\ memory.io.interrupt_flag =
                   ClearBits(flag, 2 ^ lowest_bit(updated))

\* C24 amended: when the push of the high byte of PC changes (IF & IE), the
\* dispatch goes to 0x0000 and clears no IF bit if the new value is zero, and
\* goes to the vector of the new value's lowest set bit and clears that bit
\* otherwise; a change made by the push of the low byte changes neither the
\* vector nor the bit cleared
C24_FollowsHighBytePush ==
  (dispatch_due
     /\ \/ get_active_interrupts(after_high_push.io) # pending_at_mid
        \/ get_active_interrupts(after_both_pushes.io)
             # get_active_interrupts(after_high_push.io)) =>
     LET updated == get_active_interrupts(after_high_push.io)
     IN  /\ registers.ip = IF updated = 0 THEN U32(0)
                           ELSE U32(64 + 8 * lowest_bit(updated))
         /\ BitAnd(memory.io.interrupt_flag, 31) =
              IF updated = 0
                THEN BitAnd(after_both_pushes.io.interrupt_flag, 31)
              ELSE ClearBits(BitAnd(after_both_pushes.io.interrupt_flag, 31),
                             2 ^ lowest_bit(updated))

\* C24: a dispatch at PC = 0x0101 with SP = 0, IF = 0x1f and IE = 0x10 pushed
\* 0x01 onto IE, went to 0x40 and left IF = 0x1e
C24_Witness ==
  /\ dispatch_due
  /\ pending_at_mid = 16
  /\ last.mid.r.ip = U32(257)
  /\ memory.io.interrupt_mask = 1
  /\ registers.ip = U32(64)
  /\ memory.io.interrupt_flag = 30

\* a dispatch whose high-byte push cleared IE went to 0x0000 with IF unchanged
Dispatch_ClearedMidway ==
  /\ dispatch_due
  /\ get_active_interrupts(after_high_push.io) = 0
  /\ registers.ip = U32(0)
  /\ memory.io.interrupt_flag = last.mid.m.io.interrupt_flag

\* a dispatch whose low-byte push replaced IE went to the vector of the
\* interrupt pending before it
Dispatch_LowBytePushIgnored ==
  /\ dispatch_due
  /\ last.mid.r.sp = U32(1)
  /\ pending_at_mid = 16
  /\ get_active_interrupts(memory.io) = 0
  /\ registers.ip = U32(96)
  /\ memory.io.interrupt_flag = 0

\* whether addr is in the work RAM or the high RAM, where a byte written
\* through the bus is the byte read back
in_ram(addr) == (49152 <= addr /\ addr < 57344) \/ (65408 <= addr /\ addr < 65535)

Dispatch_StackWraps ==
  /\ dispatch_due
  /\ last.mid.r.sp.lo = 0
  /\ last.mid.r.ip.lo % 256 # 0
  /\ registers.sp.lo = 65534
  /\ memory_read_byte(memory, 65534) = last.mid.r.ip.lo % 256

\* the ops that enable interrupts
EnablingOps == {"InterruptEnable", "ReturnFromInterrupt"}

\* C26: every dispatch leaves the interrupt-enable state Disabled; and a call
\* that starts with the state Disabled and whose last op is neither an
\* interrupt enable nor a return from interrupt leaves it Disabled and
\* dispatches nothing, whatever is pending
C26_DispatchDisablesInterrupts ==
  /\ dispatch_due => interrupts_enabled = "Disabled"
  /\ (last.kind # "init" /\ last.before.ie = "Disabled"
        /\ last.op.kind \notin EnablingOps) =>
       /\ interrupts_enabled = "Disabled"
       /\ registers = last.mid.r
       /\ memory = last.mid.m

\* C26: the call after the dispatch to 0x48 (IF = 0x1f, IE = 0x12) ran the
\* handler with the interrupt of bit 4 still pending and dispatched nothing
C26_Witness ==
  /\ last.kind # "init"
  /\ last.before.r.ip = U32(72)
  /\ last.before.ie = "Disabled"
  /\ last.op.kind \notin EnablingOps
  /\ pending_at_mid = 16
  /\ interrupts_enabled = "Disabled"
  /\ registers = last.mid.r

\* a dispatch left other interrupts pending
Dispatch_OthersRemainPending ==
  /\ dispatch_due
  /\ registers.ip = U32(72)
  /\ get_active_interrupts(memory.io) = 16
  /\ interrupts_enabled = "Disabled"

\* the last op of the call was a return from interrupt, and the Core reached
\* the interrupt step with PC holding the word popped from below the new SP
reti_popped ==
  /\ last.kind # "init"
  /\ last.op.kind = "ReturnFromInterrupt"
  /\ last.mid.r.ip.lo =
       memory_read_byte(last.mid.m, wrapping_sub16(last.mid.r.sp.lo, 2))
         + 256 * memory_read_byte(last.mid.m, wrapping_sub16(last.mid.r.sp.lo, 1))

\* C28: a return from interrupt pops PC from the stack (SP increases by 2)
\* and leaves the interrupt-enable state Enabled as soon as the instruction
\* has completed, in single-instruction stepping and in block execution
C28_RetiEnablesAtOnce ==
  (last.kind # "init" /\ last.op.kind = "ReturnFromInterrupt") =>
     /\ reti_popped
     /\ last.kind = "run_interp" =>
          last.mid.r.sp.lo = wrapping_add16(last.before.r.sp.lo, 2)
     /\ last.mid.ie = "Enabled"

\* a return from interrupt pops PC, and block execution leaves the
\* interrupt-enable state Enabled
Reti_PopsAndBlockEnables ==
  (last.kind # "init" /\ last.op.kind = "ReturnFromInterrupt") =>
     /\ reti_popped
     /\ last.kind = "run_interp" =>
          last.mid.r.sp.lo = wrapping_add16(last.before.r.sp.lo, 2)
     /\ last.kind = "run_code_block" => last.mid.ie = "Enabled"

\* a return from interrupt run by run_code_block left the state Enabled
Reti_BlockReached ==
  /\ reti_popped
  /\ last.kind = "run_code_block"
  /\ last.mid.r.ip = U32(8)
  /\ last.mid.ie = "Enabled"

\* a return from interrupt run by one run_interp call with interrupts
\* disabled left the state EnableNext
Reti_StepLeavesEnableNext ==
  /\ reti_popped
  /\ last.kind = "run_interp"
  /\ last.before.ie = "Disabled"
  /\ last.mid.ie = "EnableNext"
  /\ interrupts_enabled = "EnableNext"

\* the last call was made with the core halted or stopped
halted_call == last.kind = "update" /\ last.before.rs # "Run"

\* C27: every call that runs code reads the cycle accumulator, which holds
\* the cycles charged since the last read (the 5 of a dispatch included), and
\* resets it to zero; the peripherals advance by exactly 4 clock cycles per
\* machine cycle read; after the call the accumulator holds the 5 cycles of
\* the dispatch the call made, or nothing
C27_CyclesReachPeripheralsOnce ==
  last.kind # "init" =>
     /\ last.mid.r.cycles = 0
     /\ last.before.r.cycles \in {0, 5}
     /\ last.block.r.cycles >= last.before.r.cycles
     /\ last.advance = IF halted_call THEN 4 ELSE 4 * last.block.r.cycles
     /\ registers.cycles = IF dispatch_due THEN 5 ELSE 0

\* C27: a call that started with the 5 cycles of a dispatch in the
\* accumulator and ran an instruction advanced the peripherals by 4 clock
\* cycles for each of the 5 and for each cycle of the instruction
C27_Witness ==
  /\ last.kind # "init"
  /\ last.before.r.cycles = 5
  /\ last.block.r.cycles > 5
  /\ last.advance = 4 * last.block.r.cycles
  /\ last.mid.r.cycles = 0

\* C3: when the last instruction a call executed is an interrupt enable run
\* with interrupts disabled, no interrupt is dispatched in that call: the
\* dispatch waits for the instruction after the EI
C3_EnableDelayedOneInstruction ==
  (last.kind # "init" /\ last.op.kind = "InterruptEnable"
     /\ last.before.ie = "Disabled") =>
     (registers = last.mid.r /\ memory = last.mid.m)

\* C4: a translated block of one op followed by a halt leaves the registers
\* (PC and the cycles charged included), the memory and the status the
\* interpreter leaves from the same state
C4_InterpreterAndTranslatedBlockAgree ==
  (last.kind = "run_code_block" /\ jit /\ last.nops = 2
     /\ last.op.kind = "Halt") =>
     last.block = last.interp

C6_ProgramCounterIn16Bits == registers.ip.hi = 0

----------------------------------------------------------------------------
(* The code cache as a state machine: blocks are translated at chosen      *)
(* addresses of a banked cartridge, the guest writes to the bank register  *)
(* and to work RAM, and dirty work-RAM addresses are invalidated.          *)

\* the cache operations made on one Core
MaxCacheSteps == 4

\* the image of a 64 KiB MBC1 cartridge: NOP; NOP at the end of bank 0, HALT
\* at the start of bank 1, NOP; HALT at the start of bank 2, 0xff elsewhere
CacheRom ==
  [i \in {16382, 16383, 16384, 32768, 32769} |->
     IF i \in {16384, 32769} THEN 118 ELSE 0]

\* the guest addresses blocks are translated at
CacheIps == {16382, 16384, 49152, 49154}

\* the guest writes: ROM bank 1 or 2 selected, a HALT stored in work RAM
CacheWrites == {<<8192, 1>>, <<8192, 2>>, <<49155, 118>>}

\* the sets of dirty work-RAM addresses handed to the invalidation
CacheDirty == {{49152}, {49154}, {49155}}

InitCache ==
  /\ jit = TRUE
  /\ memory = MemoryAreas_with_rom_file(MBC1CartState_new, 4, 0, CacheRom)
  /\ registers = Registers_after_boot
  /\ cache = CodeCache_new
  /\ DevicesNew
  /\ last_block_cycle_length = 0
  /\ interrupts_enabled = "Disabled"
  /\ run_state = "Run"
  /\ host_error = FALSE
  /\ steps = 0
  /\ last = [kind |-> "init", dirty |-> {}]

\* CodeCache::translate_code_block at ip
CacheTranslate ==
  /\ steps < MaxCacheSteps /\ ~host_error
  /\ \E ip \in CacheIps :
       LET t == translate_code_block(cache, memory, ip)
       IN  /\ block_ends_within(memory, ip, MaxBlockOps)
           /\ host_error' = t.panic
           /\ cache' = t.cc
           /\ last' = [kind |-> "translate", dirty |-> {}]
  /\ steps' = steps + 1
  /\ UNCHANGED <<registers, memory, interrupts_enabled, run_state,
                 last_block_cycle_length, jit, devices>>

\* memory_write_byte made by the guest
CacheGuestWrite ==
  /\ steps < MaxCacheSteps /\ ~host_error
  /\ \E w \in CacheWrites :
       /\ host_error' = ~memory_write_ok(memory, w[1])
       /\ memory' = memory_write_byte(memory, w[1], w[2])
  /\ last' = [kind |-> "write", dirty |-> {}]
  /\ steps' = steps + 1
  /\ UNCHANGED <<registers, cache, interrupts_enabled, run_state,
                 last_block_cycle_length, jit, devices>>

\* CodeCache::invalidate_dirty_wram with the flags of the addresses in dirty
CacheInvalidate ==
  /\ steps < MaxCacheSteps /\ ~host_error
  /\ \E dirty \in CacheDirty :
       /\ cache' = invalidate_dirty_wram(cache, dirty)
       /\ last' = [kind |-> "invalidate", dirty |-> dirty]
  /\ steps' = steps + 1
  /\ UNCHANGED <<registers, memory, interrupts_enabled, run_state,
                 last_block_cycle_length, jit, host_error, devices>>

NextCache == CacheTranslate \/ CacheGuestWrite \/ CacheInvalidate

SpecCache == InitCache /\ [][NextCache]_vars

\* the guest addresses of a region
region_range(name) ==
  CASE name = "rom_low" -> 0..16383
    [] name = "rom_high" -> 16384..32767
    [] name = "cart_ram" -> 40960..49151
    [] name = "wram_low" -> 49152..53247
    [] name = "wram_high" -> 53248..57343
    [] name = "high_ram" -> 65408..65534

RegionNames ==
  {"rom_low", "rom_high", "cart_ram", "wram_low", "wram_high", "high_ram"}

\* C7: a lookup in the ROM-high region returns only a block that was
\* translated while the bank now selected was selected
C7_RomHighBlockOnlyUnderItsBank ==
  \A ip \in CacheIps :
     (ip \in region_range("rom_high") /\ get_address_for_ip(cache, ip) # None) =>
        cache.exec_memory[get_address_for_ip(cache, ip)[1]].rom_bank
          = get_rom_bank(memory.cart_state)

\* C8: after an invalidation no block of the work-RAM regions covers a
\* dirtied address
C8_InvalidationRemovesEveryCoveringBlock ==
  last.kind = "invalidate" =>
     \A addr \in last.dirty : \A name \in {"wram_low", "wram_high"} :
        \A key \in DOMAIN cache.code_blocks[name].cache :
           ~block_contains(cache.code_blocks[name], key, addr)

\* C9: the guest extent of every cached block lies inside the address range
\* of the region that holds it
C9_BlockExtentInsideItsRegion ==
  \A name \in RegionNames :
     \A key \in DOMAIN cache.code_blocks[name].cache :
        LET start == key_address(key)
            size == cache.code_blocks[name].cache[key].bytes_translated
        IN  start \in region_range(name)
            /\ (start + size - 1) \in region_range(name)

----------------------------------------------------------------------------
(* The memory bus as a state machine: reads and writes of the guest on the *)
(* memory of a Core built with a test image or from a cartridge file.      *)

\* the bus accesses made on one memory
MaxBusSteps == 3

\* the memories the constructors build: the test image of with_rom, and
\* with_rom_file for an MBC1 cartridge of 2 banks without RAM, an MBC1
\* cartridge of 4 banks with 8 KiB of RAM, an MBC3 cartridge of 4 banks with
\* 32 KiB of RAM
BusMemories ==
  { MemoryAreas_with_rom(<<0>>),
    MemoryAreas_with_rom_file(MBC1CartState_new, 2, 0, << >>),
    MemoryAreas_with_rom_file(MBC1CartState_new, 4, 8192, << >>),
    MemoryAreas_with_rom_file(MBC3CartState_new, 4, 32768, << >>) }

\* one address in each range of the bus, and the controller registers
BusAddrs ==
  {0, 8192, 16384, 24576, 32768, 40960, 49152, 53248, 57344, 65024, 65184,
   65295, 65408, 65535}

BusValues == {0, 1, 3}

InitBus ==
  /\ memory \in BusMemories
  /\ jit = FALSE
  /\ registers = Registers_new
  /\ cache = CodeCache_new
  /\ DevicesNew
  /\ last_block_cycle_length = 0
  /\ interrupts_enabled = "Disabled"
  /\ run_state = "Run"
  /\ host_error = FALSE
  /\ steps = 0
  /\ last = [kind |-> "init", addr |-> 0, value |-> 0]

\* memory_read_byte at addr
BusRead ==
  /\ steps < MaxBusSteps /\ ~host_error
  /\ \E addr \in BusAddrs :
       /\ host_error' = ~memory_read_ok(memory, addr)
       /\ last' = [kind |-> "read", addr |-> addr,
                   value |-> memory_read_byte(memory, addr)]
  /\ steps' = steps + 1
  /\ UNCHANGED <<registers, memory, cache, interrupts_enabled, run_state,
                 last_block_cycle_length, jit, devices>>

\* memory_write_byte at addr
BusWrite ==
  /\ steps < MaxBusSteps /\ ~host_error
  /\ \E addr \in BusAddrs, value \in BusValues :
       /\ host_error' = ~memory_write_ok(memory, addr)
       /\ memory' = memory_write_byte(memory, addr, value)
       /\ last' = [kind |-> "write", addr |-> addr, value |-> value]
  /\ steps' = steps + 1
  /\ UNCHANGED <<registers, cache, interrupts_enabled, run_state,
                 last_block_cycle_length, jit, devices>>

NextBus == BusRead \/ BusWrite

SpecBus == InitBus /\ [][NextBus]_vars

\* C10: no bus read or write ends in a host error
C10_BusAccessNeverFails == ~host_error

\* C33: for every sequence of writes to the cartridge controller (MBC1 or
\* MBC3) the ROM bank mapped at 0x4000-0x7FFF is never bank 0
C33_SwitchableBankNeverZero ==
  memory.cart_state.kind \in {"MBC1", "MBC3"} => get_rom_bank(memory.cart_state) # 0

\* bank 0 is mapped at 0x4000-0x7FFF only by an MBC1 in its RAM banking mode
Cart_BankZeroOnlyInRamBankingMode ==
  get_rom_bank(memory.cart_state) = 0 =>
    /\ memory.cart_state.kind = "MBC1"
    /\ memory.cart_state.select_ram
    /\ memory.cart_state.rom_bank = 0

\* an MBC1 in RAM banking mode whose bank register was written 0 maps bank 0
Cart_BankZeroMapped ==
  /\ memory.cart_state.kind = "MBC1"
  /\ last.kind = "write" /\ last.addr = 8192 /\ last.value = 0
  /\ get_rom_bank(memory.cart_state) = 0

\* an MBC3 whose bank register was written 0 maps bank 1
Cart_MBC3ZeroMapsOne ==
  /\ memory.cart_state.kind = "MBC3"
  /\ last.kind = "write" /\ last.addr = 8192 /\ last.value = 0
  /\ get_rom_bank(memory.cart_state) = 1

\* offsets into work RAM: its first bank, and its switchable bank
MirrorOffsets == {0, 4096}

\* C11: a read at 0xE000+k returns the byte stored at 0xC000+k, and a write at
\* 0xE000+k is the byte read at 0xC000+k afterwards
C11_MirrorOfWorkRam ==
  ~host_error =>
    /\ \A k \in MirrorOffsets :
         memory_read_ok(memory, 49152 + k) =>
           memory_read_byte(memory, 57344 + k) = memory_read_byte(memory, 49152 + k)
    /\ (last.kind = "write" /\ last.addr \in 57344..65023
          /\ memory_read_ok(memory, last.addr - 8192)) =>
         memory_read_byte(memory, last.addr - 8192) = last.value

\* C12: a byte written to a cartridge-RAM address is the byte read back from
\* that address under the same RAM bank
C12_CartRamWriteReadBack ==
  (/\ last.kind = "write" /\ last.addr \in 40960..49151
   /\ ~host_error /\ memory_read_ok(memory, last.addr)) =>
    memory_read_byte(memory, last.addr) = last.value

----------------------------------------------------------------------------
(* The OAM DMA as a state machine: the guest writes the DMA port and the   *)
(* orchestrator lets the devices catch up.                                  *)

\* the calls made on one memory
MaxDmaSteps == 5

\* the test image of with_rom holding three bytes of code
DmaMemories == { MemoryAreas_with_rom(<<1, 2, 3>>) }

\* the source pages written to the port: the ROM and work RAM
DmaSources == {0, 192}

\* the machine cycles of one catch-up
DmaMachineCycles == {1, 6, 154}

\* the IO struct of the memory
IOState == [io |-> memory.io, timer |-> timer, joypad |-> joypad, video |-> video]

InitDma ==
  /\ memory \in DmaMemories
  /\ jit = FALSE
  /\ registers = Registers_new
  /\ cache = CodeCache_new
  /\ DevicesNew
  /\ last_block_cycle_length = 0
  /\ interrupts_enabled = "Disabled"
  /\ run_state = "Run"
  /\ host_error = FALSE
  /\ steps = 0
  /\ last = [kind |-> "init", v |-> 0, k |-> 0, oam |-> << >>]

\* memory_write_byte(0xff46, v)
DmaWritePort ==
  /\ steps < MaxDmaSteps /\ ~host_error
  /\ \E v \in DmaSources :
       /\ memory' = memory_write_byte(memory, 65350, v)
       /\ last' = [kind |-> "dma", v |-> v, k |-> 0, oam |-> memory.oam_ram]
  /\ steps' = steps + 1
  /\ UNCHANGED <<registers, cache, interrupts_enabled, run_state,
                 last_block_cycle_length, jit, host_error, devices>>

\* MemoryAreas::run_clock_cycles for n machine cycles: the DMA copy, then
\* IO::run_clock_cycles
DmaCatchUp ==
  /\ steps < MaxDmaSteps /\ ~host_error
  /\ \E n \in DmaMachineCycles :
       \E c \in {run_clock_cycles(Cpu(registers, memory), 4 * n)} :
         \E x \in {IO_run_clock_cycles(
                     [io |-> c.m.io, timer |-> timer, joypad |-> joypad,
                      video |-> video], 4 * n)} :
           /\ host_error' = c.panic
           /\ memory' = [c.m EXCEPT !.io = x.io]
           /\ timer' = x.timer
           /\ joypad' = x.joypad
           /\ video' = x.video
           /\ last' = [last EXCEPT !.k = @ + n]
  /\ steps' = steps + 1
  /\ UNCHANGED <<registers, cache, interrupts_enabled, run_state,
                 last_block_cycle_length, jit>>

NextDma == DmaWritePort \/ DmaCatchUp

SpecDma == InitDma /\ [][NextDma]_vars

\* the bytes of the copy made so far
dma_copied == IF last.k < 160 THEN last.k ELSE 160

\* C13: k machine cycles after the write of v to the DMA port, the first
\* min(k, 160) bytes of OAM are the bytes at v * 0x100 + i, the other bytes
\* of OAM are as they were at the write, and the DMA is inactive exactly from
\* k = 160 on
C13_DmaOneBytePerMachineCycle ==
  (last.kind = "dma" /\ ~host_error) =>
    /\ \A i \in 0..159 :
         peek(memory.oam_ram, i) =
           IF i < dma_copied THEN memory_read_byte(memory, last.v * 256 + i)
           ELSE peek(last.oam, i)
    /\ memory.oam_dma.active <=> last.k < 160

\* a copy from the ROM stopped after 7 bytes
C13_Witness ==
  /\ last.kind = "dma" /\ last.v = 0 /\ last.k = 7 /\ ~host_error
  /\ memory.oam_dma.active /\ memory.oam_dma.current_offset = 7
  /\ peek(memory.oam_ram, 3) = 118 /\ peek(memory.oam_ram, 6) = 255
  /\ peek(memory.oam_ram, 7) = 0

----------------------------------------------------------------------------
(* The timer as a state machine: the guest writes the timer registers      *)
(* through IO::set_byte and the orchestrator lets the devices catch up.     *)

\* the calls made on one IO
MaxTimerSteps == 4

\* writes of the control byte (enabled with each rate, disabled), of the
\* counter and of the modulo: <<register, value>>
TimerWrites == {<<7, 5>>, <<7, 6>>, <<7, 7>>, <<7, 4>>, <<7, 2>>, <<5, 255>>, <<6, 200>>}

\* the clock cycles of one catch-up
TimerCycles == {8, 16, 40, 1024}

InitTimer ==
  /\ memory = MemoryAreas_with_rom(<<0>>)
  /\ jit = FALSE
  /\ registers = Registers_new
  /\ cache = CodeCache_new
  /\ DevicesNew
  /\ last_block_cycle_length = 0
  /\ interrupts_enabled = "Disabled"
  /\ run_state = "Run"
  /\ host_error = FALSE
  /\ steps = 0
  /\ last = [kind |-> "init", addr |-> 0, value |-> 0, cycles |-> 0,
             timer |-> Timer_new, video |-> VideoState_new, iflag |-> 0]

\* the IO struct after a call
IoCommit(x) ==
  /\ memory' = [memory EXCEPT !.io = x.io]
  /\ timer' = x.timer
  /\ joypad' = x.joypad
  /\ video' = x.video
  /\ steps' = steps + 1
  /\ UNCHANGED <<registers, cache, interrupts_enabled, run_state,
                 last_block_cycle_length, jit, host_error>>

\* IO::set_byte on a timer register
TimerSetByte ==
  /\ steps < MaxTimerSteps
  /\ \E w \in TimerWrites :
       /\ \E x \in {set_byte(IOState, 65280 + w[1], w[2])} : IoCommit(x)
       /\ last' = [kind |-> "write", addr |-> w[1], value |-> w[2], cycles |-> 0,
                   timer |-> timer, video |-> video,
                   iflag |-> memory.io.interrupt_flag]

\* IO::run_clock_cycles
TimerRunCycles ==
  /\ steps < MaxTimerSteps
  /\ \E cycles \in TimerCycles :
       /\ \E x \in {IO_run_clock_cycles(IOState, cycles)} : IoCommit(x)
       /\ last' = [kind |-> "run", addr |-> 0, value |-> 0, cycles |-> cycles,
                   timer |-> timer, video |-> video,
                   iflag |-> memory.io.interrupt_flag]

NextTimer == TimerSetByte \/ TimerRunCycles

SpecTimer == InitTimer /\ [][NextTimer]_vars

\* whether a control byte enables the timer
control_enables(control) == (control \div 4) % 2 = 1

\* the clock cycles between two falling edges of the bit a control byte
\* selects: bit 3, 5, 7 or 9 for low bits 1, 2, 3, 0
control_period(control) ==
  CASE control % 4 = 1 -> 16
    [] control % 4 = 2 -> 64
    [] control % 4 = 3 -> 256
    [] OTHER -> 1024

\* the falling edges of the selected bit while the internal counter goes
\* from count to count + cycles
falling_edges(control, count, cycles) ==
  (count + cycles) \div control_period(control) - count \div control_period(control)

\* whether the selected bit of the internal counter is 1 and the timer enabled
selected_bit_high(control, count) ==
  /\ control_enables(control)
  /\ (count \div (control_period(control) \div 2)) % 2 = 1

\* the falling edges of the last catch-up, 0 when the timer was disabled
last_edges ==
  IF control_enables(last.timer.control_value)
    THEN falling_edges(last.timer.control_value, last.timer.cycle_count, last.cycles)
  ELSE 0

\* C14: over a catch-up the user counter goes up by one for each falling edge
\* of the selected bit when the timer is enabled (up to the overflow), and
\* stays as it is when the timer is disabled
C14_CounterCountsFallingEdges ==
  last.kind = "run" =>
    /\ control_enables(last.timer.control_value) =>
         (last.timer.counter + last_edges <= 255 =>
            timer.counter = last.timer.counter + last_edges)
    /\ ~control_enables(last.timer.control_value) =>
         timer.counter = last.timer.counter

\* 1024 clock cycles at the slowest rate: one increment
C14_Witness ==
  /\ last.kind = "run" /\ last.cycles = 1024 /\ last.timer.control_value = 4
  /\ last.timer.cycle_count = 0 /\ last.timer.counter = 0 /\ timer.counter = 1

\* C15: an increment of the user counter at 0xff reloads it from the modulo
\* register and raises IF bit 2; no other catch-up raises IF bit 2
C15_OverflowReloadsAndRaisesTimerInterrupt ==
  last.kind = "run" =>
    /\ (last.timer.counter = 255 /\ last_edges = 1) =>
         /\ timer.counter = last.timer.modulo
         /\ BitAnd(memory.io.interrupt_flag, 4) = 4
    /\ last.timer.counter + last_edges <= 255 =>
         BitAnd(memory.io.interrupt_flag, 4) = BitAnd(last.iflag, 4)

\* C16: a write of the control byte increments the user counter once, with
\* the reload and IF bit 2 at an overflow, when the bit selected and enabled
\* before the write is 1 and the bit selected and enabled after it is 0; any
\* other write of the control byte leaves the user counter as it is
C16_ControlWriteGlitch ==
  (last.kind = "write" /\ last.addr = 7) =>
    IF /\ selected_bit_high(last.timer.control_value, last.timer.cycle_count)
       /\ ~selected_bit_high(last.value, last.timer.cycle_count)
      THEN IF last.timer.counter = 255
             THEN /\ timer.counter = last.timer.modulo
                  /\ BitAnd(memory.io.interrupt_flag, 4) = 4
           ELSE timer.counter = last.timer.counter + 1
    ELSE timer.counter = last.timer.counter

\* C16 without the interrupt: the user counter after a write of the control
\* byte
C16_CounterAfterControlWrite ==
  (last.kind = "write" /\ last.addr = 7) =>
    IF /\ selected_bit_high(last.timer.control_value, last.timer.cycle_count)
       /\ ~selected_bit_high(last.value, last.timer.cycle_count)
      THEN timer.counter = IF last.timer.counter = 255 THEN last.timer.modulo
                           ELSE last.timer.counter + 1
    ELSE timer.counter = last.timer.counter

----------------------------------------------------------------------------
(* The joypad as a state machine: the front end presses and releases       *)
(* buttons, the guest writes the select bits through IO::set_byte and the   *)
(* orchestrator lets the devices catch up.                                  *)

\* the calls made on one IO
MaxJoypadSteps == 5

\* Down of the direction half, Select and Start of the action half: Start
\* and Down share an output line
JoypadButtons == {Button("direction", 8), Button("action", 4), Button("action", 8)}

\* writes of the joypad register: the direction half selected, the action
\* half selected, none selected, both selected
JoypadSelects == {32, 16, 48, 0}

InitJoypad ==
  /\ memory = MemoryAreas_with_rom(<<0>>)
  /\ jit = FALSE
  /\ registers = Registers_new
  /\ cache = CodeCache_new
  /\ DevicesNew
  /\ last_block_cycle_length = 0
  /\ interrupts_enabled = "Disabled"
  /\ run_state = "Run"
  /\ host_error = FALSE
  /\ steps = 0
  /\ last = [kind |-> "init", lines |-> get_value(Joypad_new) % 16,
             pending |-> 0, button |-> Button("none", 0), iflag |-> 0]

\* Joypad::press_button
JoypadPress ==
  /\ steps < MaxJoypadSteps
  /\ \E button \in JoypadButtons :
       /\ IoCommit([IOState EXCEPT !.joypad = press_button(@, button)])
       /\ last' = [kind |-> "press", lines |-> get_value(joypad) % 16,
                   pending |-> joypad.next_interrupt, button |-> button,
                   iflag |-> memory.io.interrupt_flag]

\* Joypad::release_button
JoypadRelease ==
  /\ steps < MaxJoypadSteps
  /\ \E button \in JoypadButtons :
       /\ IoCommit([IOState EXCEPT !.joypad = release_button(@, button)])
       /\ last' = [kind |-> "release", lines |-> get_value(joypad) % 16,
                   pending |-> joypad.next_interrupt, button |-> button,
                   iflag |-> memory.io.interrupt_flag]

\* IO::set_byte on the joypad register
JoypadSetByte ==
  /\ steps < MaxJoypadSteps
  /\ \E value \in JoypadSelects : IoCommit(set_byte(IOState, 65280, value))
  /\ last' = [kind |-> "set", lines |-> get_value(joypad) % 16,
              pending |-> joypad.next_interrupt, button |-> Button("none", 0),
              iflag |-> memory.io.interrupt_flag]

\* IO::run_clock_cycles for one machine cycle
JoypadCatchUp ==
  /\ steps < MaxJoypadSteps
  /\ \E x \in {IO_run_clock_cycles(IOState, 4)} : IoCommit(x)
  /\ last' = [kind |-> "run", lines |-> get_value(joypad) % 16,
              pending |-> joypad.next_interrupt, button |-> Button("none", 0),
              iflag |-> memory.io.interrupt_flag]

\* memory_write_byte(0xff0f, 0): the guest clears IF
JoypadClearFlag ==
  /\ steps < MaxJoypadSteps
  /\ memory.io.interrupt_flag # 0
  /\ IoCommit([IOState EXCEPT !.io = memory_write_byte(memory, 65295, 0).io])
  /\ last' = [kind |-> "clear", lines |-> get_value(joypad) % 16,
              pending |-> joypad.next_interrupt, button |-> Button("none", 0),
              iflag |-> memory.io.interrupt_flag]

NextJoypad ==
  JoypadPress \/ JoypadRelease \/ JoypadSetByte \/ JoypadCatchUp \/ JoypadClearFlag

SpecJoypad == InitJoypad /\ [][NextJoypad]_vars

\* whether one of the four output lines is 1 in prev and 0 in new
line_fell(prev, new) ==
  \E i \in 0..3 : (prev \div 2^i) % 2 = 1 /\ (new \div 2^i) % 2 = 0

\* C17: after a button press or a write of the select bits that takes one of
\* the four output lines from 1 to 0, the joypad interrupt is pending
C17_FallingLineRaisesJoypadInterrupt ==
  (last.kind \in {"press", "set"} /\ line_fell(last.lines, get_value(joypad) % 16)) =>
    joypad.next_interrupt = 16

\* C31: a raised joypad interrupt stays pending until the next catch-up,
\* whatever is pressed, released or selected meanwhile; the catch-up moves it
\* into IF and leaves none pending; a catch-up with none pending leaves the
\* joypad bit of IF as it was
C31_JoypadInterruptReportedOnce ==
  /\ (last.kind \in {"press", "release", "set", "clear"} /\ last.pending = 16) =>
       joypad.next_interrupt = 16
  /\ last.kind = "run" =>
       /\ joypad.next_interrupt = 0
       /\ BitAnd(memory.io.interrupt_flag, 16) =
            IF last.pending = 16 THEN 16 ELSE BitAnd(last.iflag, 16)

\* C31: the button was released before the catch-up, which moved the
\* interrupt of the press into IF
C31_Witness ==
  /\ last.kind = "run"
  /\ last.pending = 16
  /\ last.iflag = 0
  /\ joypad.action_state = 0 /\ joypad.direction_state = 0
  /\ memory.io.interrupt_flag = 16
  /\ joypad.next_interrupt = 0

\* after the interrupt was moved into IF and cleared there, a catch-up with
\* the button still held reported nothing
Joypad_NotReportedAgain ==
  /\ last.kind = "run"
  /\ last.pending = 0
  /\ last.iflag = 0
  /\ get_value(joypad) % 16 # 15
  /\ memory.io.interrupt_flag = 0
  /\ steps = MaxJoypadSteps

\* C30: a button press that changes no output line (its half is not
\* selected, or its line is low already) raises no joypad interrupt: the
\* pending interrupt of the joypad is what it was before the press
C30_PressWithoutLineChange ==
  (last.kind = "press" /\ get_value(joypad) % 16 = last.lines) =>
     joypad.next_interrupt = last.pending

\* C30: with both halves selected and Start held, Down was pressed: its line
\* was low already and no interrupt is pending
C30_Witness ==
  /\ last.kind = "press"
  /\ last.button = Button("direction", 8)
  /\ joypad.select_direction /\ joypad.select_action
  /\ BitAnd(joypad.action_state, 8) = 8
  /\ BitAnd(last.lines, 8) = 0
  /\ get_value(joypad) % 16 = last.lines
  /\ last.pending = 0
  /\ joypad.next_interrupt = 0

\* Down was pressed while the direction half was not selected: no line
\* changed and no interrupt is pending
Joypad_PressInUnselectedHalf ==
  /\ last.kind = "press"
  /\ last.button = Button("direction", 8)
  /\ ~joypad.select_direction
  /\ BitAnd(joypad.direction_state, 8) = 8
  /\ get_value(joypad) % 16 = last.lines
  /\ last.pending = 0
  /\ joypad.next_interrupt = 0

----------------------------------------------------------------------------
(* The video unit over whole frames: the peripherals are caught up by the  *)
(* clock cycles of one instruction or of one block, for two frames.  `last` *)
(* observes the turns of the loop of VideoState::run_clock_cycles: the     *)
(* dots run so far, the dot and the scanline at which the current mode     *)
(* began, the mode that ended last, and the turns of the last call at      *)
(* which mode 1 was entered, the framebuffers were swapped and the vblank  *)
(* flag was returned.                                                      *)

\* the dots of the run: the vertical blank the unit starts in, scanlines 0
\* to 144, the vertical blank that follows and the first mode of the next
\* frame
MaxVideoDots == 75320

\* the clock cycles of one catch-up: one machine cycle, a short block, a
\* long block
VideoCycles == {4, 24, 80}

\* the states the loop of VideoState::run_clock_cycles passes through in its
\* first `turns` turns, each with the flag its turn raised
RECURSIVE video_turns(_, _)
video_turns(v0, turns0) ==
  The({ IF turns = 0 THEN <<[v |-> v, flag |-> 0]>>
        ELSE The({ Append(tr, video_four_dots(tr[turns].v))
                   : tr \in {video_turns(v, turns - 1)} })
        : v \in {v0}, turns \in {turns0} })

\* the greatest element of a set of numbers
Greatest(S) == CHOOSE i \in S : \A j \in S : j <= i

InitVideo ==
  /\ memory = MemoryAreas_with_rom(<<0>>)
  /\ jit = FALSE
  /\ registers = Registers_new
  /\ cache = CodeCache_new
  /\ DevicesNew
  /\ last_block_cycle_length = 0
  /\ interrupts_enabled = "Disabled"
  /\ run_state = "Run"
  /\ host_error = FALSE
  /\ steps = 0
  /\ last = [kind |-> "init", dots |-> 0, entered |-> 0, entered_line |-> 144,
             span |-> [mode |-> 4, start |-> 0, dots |-> 0, line |-> 0,
                       next_mode |-> 1, next_line |-> 144],
             changes |-> {}, entries |-> {}, swaps |-> {}, vblanks |-> {},
             iflag |-> 0]

\* what the turns tr of a call add to the observations
video_observed(tr, turns) ==
  The({ [kind |-> "run",
         dots |-> last.dots + 4 * turns,
         entered |-> IF changes = {} THEN last.entered
                     ELSE last.dots + 4 * Greatest(changes),
         entered_line |-> IF changes = {} THEN last.entered_line
                          ELSE tr[Greatest(changes) + 1].v.current_line,
         span |-> IF changes = {} THEN last.span
                  ELSE [mode |-> tr[Greatest(changes)].v.current_mode,
                        start |-> last.entered,
                        dots |-> last.dots + 4 * Greatest(changes) - last.entered,
                        line |-> tr[Greatest(changes)].v.current_line,
                        next_mode |-> tr[Greatest(changes) + 1].v.current_mode,
                        next_line |-> tr[Greatest(changes) + 1].v.current_line],
         changes |-> changes,
         entries |-> { i \in changes : tr[i + 1].v.current_mode = 1 },
         swaps |-> { i \in 1..turns : tr[i + 1].v.lcd # tr[i].v.lcd },
         vblanks |-> { i \in 1..turns : BitAnd(tr[i + 1].flag, 1) # 0 },
         iflag |-> memory.io.interrupt_flag]
        : changes \in {{ i \in 1..turns :
                         tr[i + 1].v.current_mode # tr[i].v.current_mode }} })

\* IO::run_clock_cycles
VideoCatchUp ==
  \E cycles \in VideoCycles :
    /\ last.dots + cycles <= MaxVideoDots
    /\ \E x \in {IO_run_clock_cycles(IOState, cycles)},
          tr \in {video_turns(video, cycles \div 4)} :
         /\ memory' = [memory EXCEPT !.io = x.io]
         /\ timer' = x.timer
         /\ joypad' = x.joypad
         /\ video' = x.video
         /\ last' = video_observed(tr, cycles \div 4)
    /\ UNCHANGED <<registers, cache, interrupts_enabled, run_state,
                   last_block_cycle_length, jit, host_error, steps>>

NextVideo == VideoCatchUp

SpecVideo == InitVideo /\ [][NextVideo]_vars

\* the scanlines that are drawn
VisibleLines == 0..143

\* C18: on every visible scanline the modes occur in the order 2, 3, 0 and
\* last exactly 80, 188 and 188 dots, 456 dots in all; the scanline counter
\* changes during none of them and increases by exactly one when mode 0 ends,
\* where the next scanline begins
C18_VisibleLineModes ==
  /\ (video.current_line \in VisibleLines /\ video.current_mode # 1) =>
       /\ video.current_line = last.entered_line
       /\ last.dots - last.entered < (IF video.current_mode = 2 THEN 80 ELSE 188)
  /\ (last.span.mode \in {0, 2, 3} /\ last.span.line \in VisibleLines) =>
       /\ last.span.mode = 2 =>
            /\ last.span.dots = 80
            /\ last.span.next_mode = 3
            /\ last.span.next_line = last.span.line
       /\ last.span.mode = 3 =>
            /\ last.span.dots = 188
            /\ last.span.next_mode = 0
            /\ last.span.next_line = last.span.line
       /\ last.span.mode = 0 =>
            /\ last.span.dots = 188
            /\ last.span.next_line = last.span.line + 1
            /\ last.span.next_mode = 2
  /\ (last.span.next_line \in VisibleLines
       /\ last.span.next_line # last.span.line) => last.span.next_mode = 2

\* C32: modes 2, 3 and 0 occur only on the scanlines 0 to 143: a scanline
\* counter of 144 or more implies mode 1
C32_BlankLinesAreModeOne == video.current_line >= 144 => video.current_mode = 1

\* every scanline from 145 on is in mode 1, and 153 is the last scanline
Video_BlankFromLine145 ==
  /\ video.current_line >= 145 => video.current_mode = 1
  /\ video.current_line <= 153

\* scanline 144 is in mode 0 after running through the modes 2 and 3
Video_Line144Drawn ==
  /\ video.current_line = 144
  /\ video.current_mode = 0
  /\ last.dots > 10 * 456

\* mode 0 of the last visible scanline has ended
C18_Witness ==
  /\ last.span.mode = 0
  /\ last.span.line = 143
  /\ last.span.dots = 188
  /\ last.span.next_line = 144

\* C20: mode 1 lasts exactly 10 x 456 dots from its entry, and when it ends
\* the unit is in mode 2 at scanline 0
C20_VerticalBlankLength ==
  /\ video.current_mode = 1 => last.dots - last.entered < 10 * 456
  /\ last.span.mode = 1 =>
       /\ last.span.dots = 10 * 456
       /\ last.span.next_mode = 2
       /\ last.span.next_line = 0

\* a vertical blank that was entered from mode 0 has ended
C20_Witness ==
  /\ last.span.mode = 1
  /\ last.span.start > 0
  /\ last.span.dots = 10 * 456
  /\ video.current_mode = 2
  /\ video.current_line = 0

\* The video unit by itself: the turns of a call at which the framebuffers
\* are swapped and those at which the unit returns the vblank flag are the
\* turns at which mode 1 is entered, and with the timer off bit 0 of IF is
\* set by these turns only.
Video_SwapAndVblankAtEntry ==
  /\ last.swaps = last.entries
  /\ last.vblanks = last.entries
  /\ (BitAnd(memory.io.interrupt_flag, 1) # 0 /\ BitAnd(last.iflag, 1) = 0)
       => last.entries # {}

\* mode 1 has been entered from mode 0
Video_EntryReached == last.entries # {}

\* C19: each entry into mode 1 swaps the two framebuffers and raises the
\* vblank interrupt (bit 0 of IF); the framebuffers are swapped and the
\* vblank interrupt is raised at no other time.  Stated over the calls of
\* IO::set_byte and IO::run_clock_cycles, each shorter than a vertical blank:
\* mode 1 is entered in a call iff the unit is in mode 1 after it and was not
\* before it.
C19_SwapAndVblankOnlyAtModeOneEntry ==
  last.kind \in {"write", "run"} =>
    /\ (video.lcd # last.video.lcd)
         <=> (last.video.current_mode # 1 /\ video.current_mode = 1)
    /\ (last.video.current_mode # 1 /\ video.current_mode = 1)
         => BitAnd(memory.io.interrupt_flag, 1) # 0
    /\ (BitAnd(memory.io.interrupt_flag, 1) # 0 /\ BitAnd(last.iflag, 1) = 0)
         => (last.video.current_mode # 1 /\ video.current_mode = 1)

----------------------------------------------------------------------------
(* The LY-compare interrupt: the guest writes the status and the           *)
(* LY-compare registers and the peripherals are caught up by half a        *)
(* scanline or a scanline at a time.  `last` holds the video unit and IF   *)
(* before the last call.                                                   *)

MaxLycSteps == 12

\* the writes of the guest: STAT with the LY-compare interrupt enabled, and
\* LY-compare values of the vertical blank and of the first scanline
LycWrites == {<<65, 64>>, <<69, 146>>, <<69, 0>>}

\* the clock cycles of one catch-up: half a scanline, a scanline
LycCycles == {228, 456}

InitLyc ==
  /\ memory = MemoryAreas_with_rom(<<0>>)
  /\ jit = FALSE
  /\ registers = Registers_new
  /\ cache = CodeCache_new
  /\ DevicesNew
  /\ last_block_cycle_length = 0
  /\ interrupts_enabled = "Disabled"
  /\ run_state = "Run"
  /\ host_error = FALSE
  /\ steps = 0
  /\ last = [kind |-> "init", video |-> VideoState_new, iflag |-> 0]

\* IO::set_byte on STAT or LY-compare
LycSetByte ==
  /\ steps < MaxLycSteps
  /\ \E w \in LycWrites :
       /\ \E x \in {set_byte(IOState, 65280 + w[1], w[2])} : IoCommit(x)
       /\ last' = [kind |-> "write", video |-> video,
                   iflag |-> memory.io.interrupt_flag]

\* IO::run_clock_cycles
LycCatchUp ==
  /\ steps < MaxLycSteps
  /\ \E cycles \in LycCycles :
       /\ \E x \in {IO_run_clock_cycles(IOState, cycles)} : IoCommit(x)
       /\ last' = [kind |-> "run", video |-> video,
                   iflag |-> memory.io.interrupt_flag]

NextLyc == LycSetByte \/ LycCatchUp

SpecLyc == InitLyc /\ [][NextLyc]_vars

\* C21: whenever the scanline counter changes to a value equal to the
\* LY-compare register while the LY-compare interrupt is enabled in the
\* status register, the STAT interrupt (bit 1 of IF) is raised, for every
\* scanline value 0 to 153
C21_LyCompareRaisesStat ==
  (last.kind = "run" /\ video.current_line # last.video.current_line
     /\ video.current_line = video.ly_compare /\ video.interrupt_on_lyc) =>
    BitAnd(memory.io.interrupt_flag, 2) # 0

\* the same for the scanlines 1 to 153, which the code checks
Lyc_RaisesStatAfterLineZero ==
  (last.kind = "run" /\ video.current_line # last.video.current_line
     /\ video.current_line # 0
     /\ video.current_line = video.ly_compare /\ video.interrupt_on_lyc) =>
    BitAnd(memory.io.interrupt_flag, 2) # 0

\* the scanline counter has reached an LY-compare value of the vertical blank
Lyc_BlankLineReached ==
  /\ last.kind = "run"
  /\ video.current_line # last.video.current_line
  /\ video.current_line = 146
  /\ video.ly_compare = 146
  /\ video.interrupt_on_lyc
  /\ BitAnd(last.iflag, 2) = 0

----------------------------------------------------------------------------
(* The run loop over a frame: Core::update is called again and again, as   *)
(* Core::run_frame does, on guest programs that wait for the vertical      *)
(* blank.  `last` holds the Core before the last call and at its interrupt *)
(* step, the clock cycles the devices were advanced by in the call         *)
(* (advance) and since the Core was built (clock).                         *)

\* the clock cycles of a frame of the video unit: the scanlines 0 to 144 and
\* the ten scanlines of the vertical blank
FrameClock == 155 * 456

\* the iterations of the run loop: a halted core is caught up by 4 clock
\* cycles an iteration, and has seen a frame after FrameClock / 4 of them
MaxFrameSteps == 17700

\* a program with an interrupt handler at the vblank vector: JR -2 at 0x40
with_vblank_handler(code) ==
  [i \in 1..66 |-> IF i <= Len(code) THEN code[i]
                   ELSE IF i = 65 THEN 24 ELSE IF i = 66 THEN 254 ELSE 0]

\* LD SP,0xc0ff; EI; LD A,0x01; LD (0xffff),A; JR -2
VsyncLoop == with_vblank_handler(<<49, 255, 192, 251, 62, 1, 234, 255, 255, 24, 254>>)

FramePrograms ==
  { VsyncLoop,
    \* LD A,0x01; LD (0xffff),A; HALT; NOP; JR -2
    <<62, 1, 234, 255, 255, 118, 0, 24, 254>>,
    \* LD A,0x01; LD (0xffff),A; STOP; NOP; JR -2
    <<62, 1, 234, 255, 255, 16, 0, 24, 254>>,
    \* LD SP,0xc0ff; LD A,0x01; LD (0xffff),A; EI; HALT; NOP; JR -2
    with_vblank_handler(<<49, 255, 192, 62, 1, 234, 255, 255, 251, 118, 0, 24, 254>>) }

InitFrame ==
  /\ jit \in BOOLEAN
  /\ \E code \in FramePrograms : memory = MemoryAreas_with_rom(code)
  /\ registers = Registers_new
  /\ cache = CodeCache_new
  /\ DevicesNew
  /\ last_block_cycle_length = 0
  /\ interrupts_enabled = "Disabled"
  /\ run_state = "Run"
  /\ host_error = FALSE
  /\ steps = 0
  /\ last = [kind |-> "init", before |-> snap(Core), mid |-> snap(Core),
             advance |-> 0, clock |-> 0]

\* Core::update, one iteration of the run loop
FrameUpdate ==
  /\ steps < MaxFrameSteps /\ ~host_error
  /\ (jit /\ run_state = "Run" /\ exec_slice_ok(memory, registers.ip)) =>
       block_ends_within(memory, registers.ip.lo, MaxBlockOps)
  /\ \E mid \in {update_mid(Core, jit)} :
       \E k \in {handle_interrupt(mid)} :
         IF k.panic \/ mid.panic
           THEN /\ host_error' = TRUE
                /\ UNCHANGED <<registers, memory, interrupts_enabled, run_state,
                               last_block_cycle_length, cache, devices, last>>
           ELSE /\ host_error' = FALSE
                /\ registers' = k.r
                /\ memory' = k.m
                /\ interrupts_enabled' = k.ie
                /\ run_state' = k.rs
                /\ last_block_cycle_length' = k.lbcl
                /\ cache' = k.cc
                /\ timer' = k.dev.timer
                /\ joypad' = k.dev.joypad
                /\ video' = k.dev.video
                /\ \E advance \in {(k.dev.timer.cycle_count - timer.cycle_count)
                                     % 65536} :
                     last' = [kind |-> "update", before |-> snap(Core),
                              mid |-> snap(mid), advance |-> advance,
                              clock |-> last.clock + advance]
  /\ steps' = steps + 1
  /\ UNCHANGED jit

NextFrame == FrameUpdate

SpecFrame == InitFrame /\ [][NextFrame]_vars

\* whether index is where a HALT or a STOP before it leaves the program
\* counter: past the opcode, or past the two bytes of a STOP
past_halt_or_stop(mem, index) ==
  \/ rom_byte(mem, index - 1) \in {118, 16}
  \/ rom_byte(mem, index - 2) = 16

runs_vsync_loop == memory.rom = MemoryAreas_with_rom(VsyncLoop).rom

\* the loop is running at its JR -2 with interrupts enabled and the vblank
\* bit set in IE
LoopArmed ==
  /\ runs_vsync_loop
  /\ interrupts_enabled = "Enabled"
  /\ BitAnd(memory.io.interrupt_mask, 1) = 1
  /\ run_state = "Run"
  /\ registers.ip = U32(9)

\* in the interpreter build the loop is interrupted within a frame of
\* emulated time: once the clock has passed a frame PC is in the handler
Frame_InterpreterLoopInterrupted ==
  (~jit /\ runs_vsync_loop /\ last.clock > FrameClock) =>
     /\ registers.ip = U32(64)
     /\ interrupts_enabled = "Disabled"

\* the interpreter build has run the loop for more than a frame
Frame_InterpreterFrameReached ==
  ~jit /\ runs_vsync_loop /\ last.clock > FrameClock /\ registers.ip = U32(64)

\* in the jit build the loop never advances the peripherals: the clock
\* stands still and no interrupt is raised
Frame_JitLoopClockStandsStill ==
  (jit /\ runs_vsync_loop) =>
     /\ last.clock = 0
     /\ timer.cycle_count = 0
     /\ video = VideoState_new
     /\ memory.io.interrupt_flag = 0
     /\ registers.ip.lo < 64

\* the jit build has spent all the iterations explored in the armed loop
Frame_JitLoopStillArmed == jit /\ LoopArmed /\ steps = MaxFrameSteps /\ last.clock = 0

----------------------------------------------------------------------------
(* tests::vsync_interrupt: run_code_block is called on the loop until the   *)
(* program counter is at the vblank vector.  last.clock counts the clock    *)
(* cycles the peripherals were advanced by.                                 *)

InitVsync ==
  /\ jit \in BOOLEAN
  /\ memory = MemoryAreas_with_rom(VsyncLoop)
  /\ registers = Registers_new
  /\ cache = CodeCache_new
  /\ DevicesNew
  /\ last_block_cycle_length = 0
  /\ interrupts_enabled = "Disabled"
  /\ run_state = "Run"
  /\ host_error = FALSE
  /\ steps = 0
  /\ last = [kind |-> "init", clock |-> 0]

\* core.run_code_block(), while the program counter is not at 0x40
VsyncRunCodeBlock ==
  /\ registers.ip # U32(64) /\ ~host_error
  /\ \E k \in {run_code_block(Core, jit)} :
       /\ host_error' = k.panic
       /\ registers' = k.r
       /\ memory' = k.m
       /\ interrupts_enabled' = k.ie
       /\ run_state' = k.rs
       /\ last_block_cycle_length' = k.lbcl
       /\ cache' = k.cc
       /\ timer' = k.dev.timer
       /\ joypad' = k.dev.joypad
       /\ video' = k.dev.video
       /\ last' = [kind |-> "run_code_block",
                   clock |-> last.clock
                     + ((k.dev.timer.cycle_count - timer.cycle_count) % 65536)]
  /\ UNCHANGED <<jit, steps>>

NextVsync == VsyncRunCodeBlock

SpecVsync == InitVsync /\ [][NextVsync]_vars

\* the test keeps calling run_code_block
SpecVsyncFair == SpecVsync /\ WF_vars(VsyncRunCodeBlock)

\* C29: with interrupts enabled and the vblank bit set in IE, a guest program
\* that loops forever without touching the interrupt state is eventually
\* interrupted: PC reaches the vblank vector 0x40
C29_LoopEventuallyInterrupted == LoopArmed ~> (registers.ip = U32(64))

\* in the interpreter build the loop is interrupted before a frame of
\* emulated time has passed
Vsync_InterpreterWithinFrame ==
  ~jit => /\ last.clock <= FrameClock
          /\ registers.ip = U32(64) => interrupts_enabled = "Disabled"

\* in the interpreter build the armed loop is eventually interrupted
Vsync_InterpreterEventuallyInterrupted ==
  (~jit /\ LoopArmed) ~> (registers.ip = U32(64))

\* the interpreter build has dispatched the vertical blank interrupt
Vsync_InterpreterInterrupted ==
  ~jit /\ registers.ip = U32(64) /\ last.clock > 144 * 456

\* in the jit build a call in the armed loop changes nothing: no cycle is
\* charged, the peripherals stand still and no interrupt is raised
Vsync_JitLoopStandsStill ==
  [][(jit /\ LoopArmed) => UNCHANGED <<registers, memory, timer, video,
                                       interrupts_enabled, run_state>>]_vars

\* the jit build is in the armed loop
Vsync_JitLoopArmed == jit /\ LoopArmed /\ last.clock = 0

----------------------------------------------------------------------------
(* main.rs, system/mod.rs, cart.rs: start-up.  The environment of the      *)
(* process is env = [arg, opens, seeks, file]: whether a file name was     *)
(* given, whether the file opens, whether it seeks, and the file as        *)
(* [len, bytes] with bytes the bytes of the file the model names.          *)
(* `last` holds the environment, the lines printed, the place main has     *)
(* reached and the blocks of guest code run.                               *)

MaxMainSteps == 12

\* size_of::<Header>(): the header is the 0x50 bytes at offset 0x100
HeaderSize == 80

\* Header::valid_checksum: check = check - buffer[i] - 1 for i in 0x34..0x4d,
\* wrapping in 8 bits, compared with header_checksum at 0x4d
RECURSIVE checksum_from(_, _, _)
checksum_from(buffer, i, check) ==
  IF i >= 77 THEN check
  ELSE checksum_from(buffer, i + 1, (check - peek(buffer, i) - 1) % 256)

valid_checksum(buffer) == checksum_from(buffer, 52, 0) = peek(buffer, 77)

\* system::read_header: seek to 0x100, read_exact the header
read_header(env) ==
  IF ~env.seeks THEN [ok |-> FALSE, msg |-> "Unable to read ROM file", header |-> << >>]
  ELSE IF env.file.len < 256 + HeaderSize
    THEN [ok |-> FALSE, msg |-> "Unable to read ROM header", header |-> << >>]
  ELSE [ok |-> TRUE, msg |-> "",
        header |-> [i \in { o - 256 : o \in DOMAIN env.file.bytes
                                        \cap (256..(255 + HeaderSize)) } |->
                      env.file.bytes[i + 256]]]

\* Header::create_cart_state and Header::get_rom_bank_count, for the
\* cartridge types and sizes of the files explored
Core_from_rom_file(env, header) ==
  [r |-> Registers_after_boot,
   m |-> MemoryAreas_with_rom_file(
           IF peek(header, 71) = 0 THEN NullCartState_new ELSE MBC1CartState_new,
           IF peek(header, 72) = 1 THEN 4 ELSE 2, 0, env.file.bytes)]

\* fallback_core: LD A,0x47; LDH (0x01),A; LD A,0x80; LDH (0x02),A;
\* LD A,0x42; LDH (0x01),A; LD A,0x80; LDH (0x02),A; JP 0x0010
fallback_core ==
  [r |-> Registers_new,
   m |-> MemoryAreas_with_rom(<<62, 71, 224, 1, 62, 128, 224, 2, 62, 66, 224, 1,
                                62, 128, 224, 2, 195, 16, 0>>)]

\* load_rom: the Core, or None with the line printed
load_rom(env) ==
  IF ~env.opens THEN [core |-> << >>, printed |-> <<"Unable to open file">>]
  ELSE LET h == read_header(env)
       IN  IF ~h.ok THEN [core |-> << >>, printed |-> <<h.msg>>]
           ELSE IF ~valid_checksum(h.header)
             THEN [core |-> << >>,
                   printed |-> <<"ROM file is corrupt: invalid header checksum">>]
           ELSE [core |-> <<Core_from_rom_file(env, h.header)>>,
                 printed |-> <<"Loading">>]

\* main up to its loop: get_file_arg().and_then(load_rom), or fallback_core()
main_core(env) ==
  LET loaded == IF env.arg THEN load_rom(env)
                ELSE [core |-> << >>, printed |-> << >>]
  IN  IF loaded.core # << >>
        THEN [core |-> loaded.core[1], printed |-> loaded.printed]
      ELSE [core |-> fallback_core,
            printed |-> loaded.printed \o <<"No ROM, loading fallback">>]

\* a ROM file: the header at 0x100..0x14f with NOP; JR -2 at the entry
\* point, the first title byte at 0x134, the cartridge type and the ROM size
\* at 0x147 and 0x148 and the header checksum at 0x14d, zero elsewhere
RomFile(len, cart_type, rom_size, title, checksum) ==
  [len |-> len,
   bytes |-> [o \in 256..(255 + HeaderSize) |->
               CASE o = 257 -> 24
                 [] o = 258 -> 254
                 [] o = 308 -> title
                 [] o = 327 -> cart_type
                 [] o = 328 -> rom_size
                 [] o = 333 -> checksum
                 [] OTHER -> 0]]

\* files with a valid header, with a wrong checksum, and too short to hold a
\* header
RomFiles ==
  { RomFile(32768, 0, 0, 0, 231), RomFile(65536, 1, 1, 0, 229),
    RomFile(32768, 0, 0, 65, 166),
    RomFile(32768, 0, 0, 0, 0), RomFile(32768, 0, 0, 65, 231),
    RomFile(288, 0, 0, 0, 231) }

Environments ==
  { [arg |-> FALSE, opens |-> FALSE, seeks |-> FALSE, file |-> RomFile(0, 0, 0, 0, 0)],
    [arg |-> TRUE, opens |-> FALSE, seeks |-> FALSE, file |-> RomFile(0, 0, 0, 0, 0)],
    [arg |-> TRUE, opens |-> TRUE, seeks |-> FALSE, file |-> RomFile(0, 0, 0, 0, 0)] }
  \cup { [arg |-> TRUE, opens |-> TRUE, seeks |-> TRUE, file |-> f] : f \in RomFiles }

\* the process at the entry of main
InitMain ==
  /\ jit \in BOOLEAN
  /\ memory = MemoryAreas_with_rom(<<0>>)
  /\ registers = Registers_new
  /\ cache = CodeCache_new
  /\ DevicesNew
  /\ last_block_cycle_length = 0
  /\ interrupts_enabled = "Disabled"
  /\ run_state = "Run"
  /\ host_error = FALSE
  /\ steps = 0
  /\ \E env \in Environments :
       last = [kind |-> "start", env |-> env, printed |-> << >>, blocks |-> 0]

\* main: the Core is loaded from the ROM file or is the fallback
MainLoad ==
  /\ last.kind = "start"
  /\ \E c \in {main_core(last.env)} :
       /\ registers' = c.core.r
       /\ memory' = c.core.m
       /\ last' = [last EXCEPT !.kind = "loop", !.printed = c.printed]
  /\ UNCHANGED <<cache, interrupts_enabled, run_state, last_block_cycle_length,
                 jit, host_error, steps, devices>>

\* main: loop { core.run_code_block(); }
MainLoop ==
  /\ last.kind = "loop" /\ steps < MaxMainSteps /\ ~host_error
  /\ exec_slice_ok(memory, registers.ip) =>
       block_ends_within(memory, registers.ip.lo, MaxBlockOps + 1)
  /\ \E k \in {handle_interrupt(The({ catch_up(block_status(k1), TRUE)
                                      : k1 \in {IF jit /\ registers.ip.hi = 0
                                                     /\ can_dynarec(registers.ip.lo)
                                                  THEN run_block(Core, TRUE)
                                                ELSE interpreter_run_code_block(
                                                       Core, MaxBlockOps + 1)} }))} :
       IF k.panic
         THEN /\ host_error' = TRUE
              /\ UNCHANGED <<registers, memory, interrupts_enabled, run_state,
                             last_block_cycle_length, cache, devices, last>>
         ELSE /\ host_error' = FALSE
              /\ registers' = k.r
              /\ memory' = k.m
              /\ interrupts_enabled' = k.ie
              /\ run_state' = k.rs
              /\ last_block_cycle_length' = k.lbcl
              /\ cache' = k.cc
              /\ timer' = k.dev.timer
              /\ joypad' = k.dev.joypad
              /\ video' = k.dev.video
              /\ last' = [last EXCEPT !.blocks = @ + 1]
  /\ steps' = steps + 1
  /\ UNCHANGED jit

NextMain == MainLoad \/ MainLoop

SpecMain == InitMain /\ [][NextMain]_vars

\* the ROM file was named but could not be opened, its header could not be
\* read, or its header checksum is invalid
load_failed(env) ==
  /\ env.arg
  /\ \/ ~env.opens
     \/ ~read_header(env).ok
     \/ ~valid_checksum(read_header(env).header)

\* C23: when the ROM file cannot be opened, its header cannot be read, or
\* its header checksum is invalid, the error is reported to the operator and
\* the program exits without executing any guest code: main does not reach
\* its loop and no block is run
C23_LoadFailureExits ==
  (last.kind # "start" /\ load_failed(last.env)) =>
    /\ Len(last.printed) >= 1
    /\ last.kind # "loop"
    /\ last.blocks = 0

\* the error is reported: after a failed load the first line printed is the
\* error
Main_LoadFailureReported ==
  (last.kind # "start" /\ load_failed(last.env)) =>
    /\ Len(last.printed) = 2
    /\ last.printed[1] \in {"Unable to open file", "Unable to read ROM file",
                            "Unable to read ROM header",
                            "ROM file is corrupt: invalid header checksum"}

\* after a failed load the fallback program has run and has written to the
\* serial port registers
Main_FallbackRan ==
  /\ load_failed(last.env)
  /\ last.blocks >= 1
  /\ registers.ip = U32(16)
  /\ get_a(registers) = 128

----------------------------------------------------------------------------
(* The interpreter on single instructions: run_next_op on a Core whose ROM  *)
(* holds one instruction twice at 0x0000, or one instruction whose first    *)
(* byte is at 0x3FFF, from cleared registers with A and SP chosen.  last    *)
(* holds the op decoded, the length the decoder reported for it and the     *)
(* program counter it was fetched at.                                       *)

\* the instructions run in a row
MaxStepOps == 2

\* the instructions that do not transfer control and have arms in the
\* decoder of the model, with STOP, HALT, EI and DI
StepInstructions ==
  { <<0>>, <<1, 52, 18>>, <<6, 170>>, <<14, 2>>, <<16, 0>>, <<17, 52, 18>>,
    <<33, 0, 192>>, <<39>>, <<47>>, <<49, 240, 192>>, <<55>>, <<60>>, <<61>>,
    <<62, 21>>, <<63>>, <<118>>, <<198, 39>>, <<214, 11>>, <<193>>, <<197>>,
    <<224, 128>>, <<232, 254>>, <<234, 0, 192>>, <<241>>, <<243>>, <<245>>,
    <<251>> }

\* the instructions placed with their first byte at 0x3FFF, the last byte of
\* ROM bank 0, in a ROM of two banks
StepBoundaryInstructions == { <<0>>, <<62, 21>>, <<16, 0>>, <<1, 52, 18>> }

\* the memories and program counters at the start
StepStarts ==
  { [m |-> MemoryAreas_with_rom(code \o code), ip |-> 0]
    : code \in StepInstructions }
  \cup
  { [m |-> MemoryAreas_with_rom_file(
             NullCartState_new, 2, 0,
             [i \in 16383..(16382 + Len(code)) |-> code[i - 16382]]),
     ip |-> 16383]
    : code \in StepBoundaryInstructions }

\* values of A at the start
StepAccumulators == {0, 154}

\* the ops that transfer control
TransferOps ==
  {"Jump", "JumpHL", "JumpRelative", "Call", "ResetVector", "Return",
   "ReturnFromInterrupt"}

InitStep ==
  /\ jit = FALSE
  /\ \E start \in StepStarts, a \in StepAccumulators :
       /\ memory = start.m
       /\ registers = [Registers_new EXCEPT !.af = a * 256, !.sp = U32(49408),
                                            !.ip = U32(start.ip)]
  /\ cache = CodeCache_new
  /\ DevicesNew
  /\ last_block_cycle_length = 0
  /\ interrupts_enabled = "Disabled"
  /\ run_state = "Run"
  /\ host_error = FALSE
  /\ steps = 0
  /\ last = [kind |-> "init", op |-> Op("None", 0, 0), length |-> 0, ip |-> U32(0)]

\* interpreter::run_next_op
StepRunNextOp ==
  /\ steps < MaxStepOps /\ ~host_error
  /\ \E c \in {run_next_op(Cpu(registers, memory))},
        d \in {fetch(memory, registers.ip)} :
       /\ host_error' = c.panic
       /\ registers' = IF c.panic THEN registers ELSE c.r
       /\ memory' = IF c.panic THEN memory ELSE c.m
       /\ last' = [kind |-> IF c.panic THEN "host_error" ELSE "op",
                   op |-> d[1], length |-> d[2], ip |-> registers.ip]
  /\ steps' = steps + 1
  /\ UNCHANGED <<cache, interrupts_enabled, run_state, last_block_cycle_length,
                 jit, devices>>

NextStep == StepRunNextOp

SpecStep == InitStep /\ [][NextStep]_vars

\* C34: every instruction that does not transfer control, and also STOP,
\* HALT, EI and DI, advances PC by exactly the instruction length the decoder
\* reports for it
C34_AdvancesByDecodedLength ==
  (last.kind = "op" /\ last.op.kind \notin TransferOps) =>
     registers.ip = wrapping_add32(last.ip, last.length)

\* every such instruction but STOP advances PC by the decoded length, and
\* STOP, decoded with length 2, advances it by 1
Step_AllButStopAdvanceByLength ==
  (last.kind = "op" /\ last.op.kind \notin TransferOps) =>
     registers.ip = wrapping_add32(last.ip, IF last.op.kind = "Stop" THEN 1
                                            ELSE last.length)

\* a STOP fetched at 0x0000 was decoded with length 2 and left PC = 0x0001
Step_StopAdvancesByOne ==
  /\ last.kind = "op"
  /\ last.op.kind = "Stop"
  /\ last.length = 2
  /\ last.ip = U32(0)
  /\ registers.ip = U32(1)

\* a three-byte instruction was run twice
Step_ThreeByteOpRun ==
  /\ last.kind = "op"
  /\ last.length = 3
  /\ last.ip = U32(3)
  /\ registers.ip = U32(6)

----------------------------------------------------------------------------
(* Catch-up in one call and in two.  The object line cache of the video    *)
(* unit (devices/video/mod.rs, find_current_line_sprites) is computed from *)
(* OAM and video RAM when a line starts; it is kept in last.cache, as a    *)
(* function from the pixels that hold an object to their bytes.            *)

\* the catch-ups of one run
MaxAddSteps == 3

\* tile::interleave: bit i of low at bit 2i of the result, bit i of high at
\* bit 2i + 1
RECURSIVE interleave(_, _)
interleave(low, high) ==
  IF low = 0 /\ high = 0 THEN 0
  ELSE (low % 2) + 2 * (high % 2) + 4 * interleave(low \div 2, high \div 2)

\* the bits of a byte in reverse order (get_object_row, flip_x)
RECURSIVE reverse_bits(_, _)
reverse_bits(b, n) ==
  IF n = 0 THEN 0
  ELSE (b % 2) * 2 ^ (n - 1) + reverse_bits(b \div 2, n - 1)

\* VideoState::get_object_row
get_object_row(video_ram, tile_index, row, flip_x) ==
  LET address == tile_index * 16 + row * 2
      low_raw == peek(video_ram, address)
      high_raw == peek(video_ram, address + 1)
  IN  interleave(IF flip_x THEN reverse_bits(low_raw, 8) ELSE low_raw,
                 IF flip_x THEN reverse_bits(high_raw, 8) ELSE high_raw)

\* find_current_line_sprites, one turn of the search of OAM: the object at
\* `offset` appended to those found if it is on the line
object_at(found, offset, current_line, object_height, video_ram, oam) ==
  LET object_y == peek(oam, offset)
      object_x == peek(oam, offset + 1)
      tile_index == peek(oam, offset + 2)
      attributes == peek(oam, offset + 3)
      line == current_line + 16 - object_y
      flip_y == BitAnd(attributes, 64) # 0
      flip_x == BitAnd(attributes, 32) # 0
      object_line == IF flip_y THEN object_height - line - 1 ELSE line
  IN  IF ~(offset < 160 /\ Len(found) < 10) THEN found
      ELSE IF line < 0 \/ line >= object_height THEN found
      ELSE Append(found,
                  [has_priority |-> BitAnd(attributes, 128) # 0,
                   palette |-> BitAnd(attributes, 16) \div 16,
                   row_data |-> get_object_row(video_ram, tile_index,
                                               object_line, flip_x),
                   x_coord |-> object_x,
                   taken |-> FALSE])

\* find_current_line_sprites, n turns of the search of OAM from `offset` on
\* (the first half of the turns followed by the rest): the objects on the
\* line, ten at most
RECURSIVE objects_on_line(_, _, _, _, _, _, _)
objects_on_line(found0, offset0, n0, current_line, object_height, video_ram, oam) ==
  The({ IF n = 0 THEN found
        ELSE IF n = 1
          THEN object_at(found, offset, current_line, object_height,
                         video_ram, oam)
        ELSE The({ objects_on_line(f, offset + 4 * (n \div 2), n - n \div 2,
                                   current_line, object_height, video_ram, oam)
                   : f \in {objects_on_line(found, offset, n \div 2, current_line,
                                            object_height, video_ram, oam)} })
        : found \in {found0}, offset \in {offset0}, n \in {n0} })

\* find_current_line_sprites, the pixels x .. 7 of one object copied to the
\* unpopulated pixels of the cache
RECURSIVE draw_object(_, _, _, _)
draw_object(line_cache0, obj, line_x, x) ==
  The({ IF x >= 8 THEN line_cache
        ELSE LET offset == line_x + x
                 priority == IF obj.has_priority THEN 64 ELSE 0
                 color_index == (obj.row_data \div 2 ^ (14 - 2 * x)) % 4
             IN  IF BitAnd(peek(line_cache, offset), 128) = 0 /\ color_index # 0
                   THEN draw_object(
                          poke(line_cache, offset,
                               128 + priority + obj.palette * 4 + color_index),
                          obj, line_x, x + 1)
                   ELSE draw_object(line_cache, obj, line_x, x + 1)
        : line_cache \in {line_cache0} })

\* find_current_line_sprites, the objects from obj_index on at one line_x:
\* <<cache, objects>>
RECURSIVE draw_at(_, _, _, _)
draw_at(line_cache, found, line_x, obj_index) ==
  IF obj_index > Len(found) THEN <<line_cache, found>>
  ELSE IF ~found[obj_index].taken /\ found[obj_index].x_coord = line_x
    THEN draw_at(draw_object(line_cache, found[obj_index], line_x, 0),
                 [found EXCEPT ![obj_index].taken = TRUE], line_x, obj_index + 1)
  ELSE draw_at(line_cache, found, line_x, obj_index + 1)

\* find_current_line_sprites, the sweep over n values of line_x from line_x
\* on (the first half followed by the rest): [cache, found]
RECURSIVE sweep_line(_, _, _)
sweep_line(cf0, line_x0, n0) ==
  The({ IF n = 0 THEN cf
        ELSE IF n = 1
          THEN IF line_x < 168 /\ \E i \in 1..Len(cf.found) : ~cf.found[i].taken
                 THEN The({ [cache |-> r[1], found |-> r[2]]
                            : r \in {draw_at(cf.cache, cf.found, line_x, 1)} })
                 ELSE cf
        ELSE The({ sweep_line(r, line_x + n \div 2, n - n \div 2)
                   : r \in {sweep_line(cf, line_x, n \div 2)} })
        : cf \in {cf0}, line_x \in {line_x0}, n \in {n0} })

\* VideoState::find_current_line_sprites for the LCD control byte lcdc: the
\* object line cache of the line
find_current_line_sprites(current_line, lcdc, video_ram, oam) ==
  IF BitAnd(lcdc, 2) = 0 THEN << >>
  ELSE sweep_line([cache |-> << >>,
                   found |-> objects_on_line(
                               << >>, 0, 40, current_line,
                               IF BitAnd(lcdc, 4) # 0 THEN 16 ELSE 8,
                               video_ram, oam)],
                  0, 168).cache

\* VideoState::run_clock_cycles with the object line cache, on
\* vc = [v, flag, cache]: the cache is computed anew in each turn of the loop
\* that starts a line (mode 2 entered)
RECURSIVE video_line_cache(_, _, _, _)
video_line_cache(vc0, cycles0, lcdc, mem) ==
  The({ IF cycles <= 0 THEN vc
        ELSE IF cycles = 4
          THEN The({ [v |-> r.v, flag |-> BitOr(vc.flag, r.flag),
                      cache |-> IF r.v.current_mode = 2 /\ vc.v.current_mode # 2
                                  THEN find_current_line_sprites(
                                         r.v.current_line, lcdc,
                                         mem.video_ram, mem.oam_ram)
                                  ELSE vc.cache]
                     : r \in {video_four_dots(vc.v)} })
        ELSE The({ video_line_cache(r, cycles - h, lcdc, mem)
                   : r \in {video_line_cache(vc, h, lcdc, mem)} })
        : vc \in {vc0}, cycles \in {cycles0},
          h \in {4 * ((cycles0 \div 4) \div 2)} })

\* MemoryAreas::run_clock_cycles on a Core and the object line cache:
\* [k, cache]
catch_up_cache(kc, cycles, lcdc) ==
  The({ [k |-> k1,
         cache |-> video_line_cache(
                     [v |-> kc.k.dev.video, flag |-> 0, cache |-> kc.cache],
                     cycles, lcdc, k1.m).cache]
        : k1 \in {MemoryAreas_run_clock_cycles(kc.k, cycles)} })

\* the LCD control bytes written before the run: objects off, objects on
AddLcdControls == {128, 130}

\* the timer control bytes written before the run: off, one tick in 16
AddTimerControls == {0, 5}

\* the clock cycles run before the first catch-up: none, and to three and
\* one turn before the vertical blank ends
AddStarts == {0, 4548, 4556}

\* the timer counters written before the run; from 227 the counter holds
\* 0xff after 4548 clock cycles at one tick in 16
AddTimerCounters == {0, 227}

\* the clock cycles of one catch-up
AddCycles == {4, 8, 16}

\* the bytes the guest wrote before the run: an object at y = 16, x = 8 in
\* work RAM at 0xc000, a row of tile 0 in video RAM
AddWrites == << <<49152, 16>>, <<49153, 8>>, <<32768, 255>> >>

RECURSIVE write_all(_, _)
write_all(mem, writes) ==
  IF writes = << >> THEN mem
  ELSE write_all(memory_write_byte(mem, writes[1][1], writes[1][2]), Tail(writes))

\* what is compared of a Core after a catch-up
add_state(kc) ==
  [timer |-> kc.k.dev.timer, video |-> kc.k.dev.video, dma |-> kc.k.m.oam_dma,
   interrupt_flag |-> kc.k.m.io.interrupt_flag, oam |-> kc.k.m.oam_ram,
   cache |-> kc.cache]

InitAdd ==
  /\ jit = FALSE
  /\ registers = Registers_new
  /\ cache = CodeCache_new
  /\ last_block_cycle_length = 0
  /\ interrupts_enabled = "Disabled"
  /\ run_state = "Run"
  /\ host_error = FALSE
  /\ steps = 0
  /\ joypad = Joypad_new
  /\ \E lcdc \in AddLcdControls, tc \in AddTimerControls,
        counter \in AddTimerCounters, t0 \in AddStarts :
       \E x \in {IO_run_clock_cycles(
                   set_byte(set_byte([io |-> IO_new, timer |-> Timer_new,
                                      joypad |-> Joypad_new,
                                      video |-> VideoState_new],
                                     65285, counter),
                            65287, tc), t0)} :
         /\ memory = [write_all(MemoryAreas_with_rom(<<0>>), AddWrites)
                        EXCEPT !.io = x.io]
         /\ timer = x.timer
         /\ video = x.video
         /\ last = [kind |-> "init", lcdc |-> lcdc, a |-> 0, b |-> 0,
                    cache |-> << >>, dma |-> FALSE,
                    once |-> [timer |-> x.timer, video |-> x.video,
                              dma |-> DMA_None,
                              interrupt_flag |-> x.io.interrupt_flag,
                              oam |-> << >>, cache |-> << >>]]

\* memory_write_byte(0xff46, 0xc0): an OAM DMA from 0xc000 started
AddDmaStart ==
  /\ steps < MaxAddSteps
  /\ ~memory.oam_dma.active
  /\ memory' = memory_write_byte(memory, 65350, 192)
  /\ last' = [last EXCEPT !.kind = "dma"]
  /\ steps' = steps + 1
  /\ UNCHANGED <<registers, cache, interrupts_enabled, run_state,
                 last_block_cycle_length, jit, host_error, devices>>

\* MemoryAreas::run_clock_cycles(a) and then MemoryAreas::run_clock_cycles(b);
\* last.once is what one MemoryAreas::run_clock_cycles(a + b) leaves from the
\* same state
AddCatchUp ==
  /\ steps < MaxAddSteps
  /\ \E a \in AddCycles, b \in AddCycles :
       \E kc \in {[k |-> Core, cache |-> last.cache]} :
         \E split \in {catch_up_cache(catch_up_cache(kc, a, last.lcdc), b, last.lcdc)},
            once \in {catch_up_cache(kc, a + b, last.lcdc)} :
           /\ memory' = split.k.m
           /\ timer' = split.k.dev.timer
           /\ joypad' = split.k.dev.joypad
           /\ video' = split.k.dev.video
           /\ last' = [kind |-> "catch_up", lcdc |-> last.lcdc, a |-> a, b |-> b,
                       cache |-> split.cache, dma |-> memory.oam_dma.active,
                       once |-> add_state(once)]
  /\ steps' = steps + 1
  /\ UNCHANGED <<registers, cache, interrupts_enabled, run_state,
                 last_block_cycle_length, jit, host_error>>

NextAdd == AddDmaStart \/ AddCatchUp

SpecAdd == InitAdd /\ [][NextAdd]_vars

\* C35: advancing the peripherals by a clock cycles and then by b clock
\* cycles (both multiples of 4, no guest write in between) leaves the timer,
\* the video unit, the DMA and the interrupt flags as advancing once by a + b
\* leaves them
C35_CatchUpAdditive ==
  last.kind = "catch_up" =>
    /\ timer = last.once.timer
    /\ video = last.once.video
    /\ last.cache = last.once.cache
    /\ memory.oam_dma = last.once.dma
    /\ memory.io.interrupt_flag = last.once.interrupt_flag

\* the timer, the mode, line and dot counter of the video unit, the DMA with
\* OAM and the interrupt flags are the same after a then b as after a + b,
\* and so is the object line cache when no DMA was in flight
Add_TimingAdditive ==
  last.kind = "catch_up" =>
    /\ timer = last.once.timer
    /\ video = last.once.video
    /\ memory.oam_dma = last.once.dma
    /\ memory.oam_ram = last.once.oam
    /\ memory.io.interrupt_flag = last.once.interrupt_flag
    /\ ~last.dma => last.cache = last.once.cache

\* line 0 started in the first of two catch-ups of 4 cycles with a DMA in
\* flight: the search saw one byte of the object, and would have seen two in
\* a catch-up of 8
Add_LineCacheDiffers ==
  /\ last.kind = "catch_up"
  /\ last.dma
  /\ last.a = 4 /\ last.b = 4
  /\ video.current_line = 0 /\ video.current_mode = 2
  /\ last.cache # last.once.cache

\* the timer overflowed in the second of two catch-ups
Add_TimerOverflowed ==
  /\ last.kind = "catch_up"
  /\ timer.counter = 0 /\ timer.cycle_count = 4560
  /\ last.a = 4 /\ last.b = 8
  /\ memory.io.interrupt_flag # 0

\* a line started with the whole object in OAM and the object is in the cache
Add_ObjectInCache ==
  /\ last.kind = "catch_up"
  /\ last.cache = last.once.cache
  /\ DOMAIN last.cache = 8..15

----------------------------------------------------------------------------
(* Video RAM under bus writes (the bus harness) *)

\* C37: a bus write to an address outside 0x8000-0x9FFF never changes any
\* byte of video RAM
C37_VideoRamOnlyFromItsRange ==
  [][memory'.video_ram # memory.video_ram =>
       (last'.kind = "write" /\ last'.addr \in 32768..40959)]_vars

\* video RAM changes only in a bus write to 0x8000-0xBFFF: the writes to its
\* own range and those to the cartridge RAM range
Bus_VideoRamFromCartRamRange ==
  [][memory'.video_ram # memory.video_ram =>
       (last'.kind = "write" /\ last'.addr \in 32768..49151)]_vars

\* a write of 1 to 0xa000 was stored in byte 0 of video RAM
Bus_CartRamWriteInVideoRam ==
  /\ last.kind = "write"
  /\ last.addr = 40960
  /\ last.value = 1
  /\ peek(memory.video_ram, 0) = 1
  /\ memory.cart_ram = << >>

----------------------------------------------------------------------------
(* Instructions that span two regions (the single instructions) *)

\* what was fetched has its first byte in one region and bytes in the next
spans_regions ==
  /\ last.kind \in {"op", "host_error"}
  /\ exec_slice_len(memory, last.ip) < last.length

\* C38: an instruction whose opcode byte is the last byte of one memory
\* region and whose operand bytes are the first bytes of the next is fetched
\* across the boundary and executed without a host error
C38_FetchedAcrossBoundary ==
  spans_regions => (last.kind = "op" /\ ~host_error)

\* running a single instruction is a host error exactly when the instruction
\* spans two regions and the decoder reads an operand byte of it: STOP, whose
\* second byte the decoder does not read, is run at 0x3FFF
Step_HostErrorIffOperandOutside ==
  last.kind \in {"op", "host_error"} =>
    (host_error <=> (spans_regions /\ last.op.kind # "Stop"))

\* LD A, 0x15 with its opcode at 0x3FFF and its operand at 0x4000 stopped the
\* host
Step_BoundaryLoadPanics ==
  /\ last.kind = "host_error"
  /\ last.ip = U32(16383)
  /\ last.op.kind = "Load8Immediate"
  /\ rom_byte(memory, 16384) = 21
  /\ host_error

\* NOP at 0x3FFF was run and the next instruction was fetched at 0x4000
Step_BoundaryNopRuns ==
  /\ last.kind = "op"
  /\ last.ip = U32(16384)
  /\ ~host_error

----------------------------------------------------------------------------
(* A core that halts late in a frame.  The devices have run HaltStart      *)
(* clock cycles since the Core was built; the timer holds what writes of   *)
(* 0xfe to TIMA and of the control byte to TAC then left in it; the guest  *)
(* program writes IE and executes HALT or STOP; Core::update is called     *)
(* over and over.                                                          *)

\* the iterations of the run loop
MaxHaltSteps == 64

\* the clock cycles the devices have run at the start: 160 before the
\* vertical blank of the first frame
HaltStart == FrameClock - 160

\* the timer control bytes: timer off, timer on at one tick in 16 cycles
HaltTimerControls == {0, 5}

\* the interrupts IE selects: vblank, timer
HaltMasks == {1, 4}

\* LD A,ie; LD (0xffff),A; HALT or STOP; NOP; JR -2
HaltPrograms ==
  { <<62, ie, 234, 255, 255, op, 0, 24, 254>> : ie \in HaltMasks, op \in {118, 16} }

InitHalt ==
  /\ jit \in BOOLEAN
  /\ registers = Registers_new
  /\ cache = CodeCache_new
  /\ last_block_cycle_length = 0
  /\ interrupts_enabled = "Disabled"
  /\ run_state = "Run"
  /\ host_error = FALSE
  /\ steps = 0
  /\ \E code \in HaltPrograms, tac \in HaltTimerControls :
       \E x \in {set_byte(
                   set_byte(IO_run_clock_cycles(
                              [io |-> IO_new, timer |-> Timer_new,
                               joypad |-> Joypad_new, video |-> VideoState_new],
                              HaltStart),
                            65285, 254),
                   65287, tac)} :
         /\ memory = [MemoryAreas_with_rom(code) EXCEPT !.io = x.io]
         /\ timer = x.timer
         /\ joypad = x.joypad
         /\ video = x.video
  /\ last = [kind |-> "init", rs |-> "Run", overflows |-> 0]

\* Core::update, one iteration of the run loop; last.overflows counts the
\* overflows of the timer counter.  Every block of HaltPrograms ends within
\* MaxBlockOps ops.
HaltUpdate ==
  /\ steps < MaxHaltSteps /\ ~host_error
  /\ \E k \in {update(Core, jit)} :
       /\ host_error' = k.panic
       /\ registers' = k.r
       /\ memory' = k.m
       /\ interrupts_enabled' = k.ie
       /\ run_state' = k.rs
       /\ last_block_cycle_length' = k.lbcl
       /\ cache' = k.cc
       /\ timer' = k.dev.timer
       /\ joypad' = k.dev.joypad
       /\ video' = k.dev.video
       /\ last' = [kind |-> "update", rs |-> run_state,
                   overflows |-> last.overflows
                     + IF k.dev.timer.counter < timer.counter THEN 1 ELSE 0]
  /\ steps' = steps + 1
  /\ UNCHANGED jit

NextHalt == HaltUpdate

SpecHalt == InitHalt /\ [][NextHalt]_vars

\* the run loop keeps calling Core::update
SpecHaltFair == SpecHalt /\ WF_vars(HaltUpdate)

\* the core is halted or stopped and IE selects a running interrupt source:
\* vblank, or the timer while it is enabled
halted_on_running_source ==
  /\ run_state # "Run"
  /\ \/ BitAnd(memory.io.interrupt_mask, 1) # 0
     \/ BitAnd(memory.io.interrupt_mask, 4) # 0 /\ timer.enabled_mask # 0

Halt_VblankWakes ==
  (run_state # "Run" /\ BitAnd(memory.io.interrupt_mask, 1) # 0)
    ~> (run_state = "Run")

\* the peripherals advance by 4 clock cycles in every update of a halted or
\* stopped core, and the timer bit of IF is never raised: an overflow of the
\* timer counter raises bit 0
Halt_TimerBitNeverRaised ==
  /\ BitAnd(memory.io.interrupt_flag, 4) = 0
  /\ last.overflows > 0 => BitAnd(memory.io.interrupt_flag, 1) # 0
  /\ (last.kind = "update" /\ last.rs # "Run") =>
       timer.cycle_count % 4 = 0
  /\ (jit /\ run_state = "Run" /\ exec_slice_ok(memory, registers.ip)) =>
       block_ends_within(memory, registers.ip.lo, MaxBlockOps)
  /\ ~host_error

\* the timer counter has overflowed and the core that waits for the timer is
\* still halted
Halt_TimerOverflowedAsleep ==
  /\ run_state = "Halt"
  /\ memory.io.interrupt_mask = 4
  /\ timer.enabled_mask # 0
  /\ last.overflows = 1
  /\ memory.io.interrupt_flag = 1
  /\ steps = MaxHaltSteps

\* the core that waits for vblank with the timer off was woken by the
\* vertical blank
Halt_VblankWoke ==
  /\ last.kind = "update"
  /\ last.rs = "Halt"
  /\ run_state = "Run"
  /\ timer.enabled_mask = 0
  /\ video.current_mode = 1 /\ video.current_line = 144
  /\ memory.io.interrupt_flag = 1

====
